---- MODULE Spec2Model ----
(***************************************************************************)
(* A model of the nftnl crate: the batch engine (batch.rs), the lazily     *)
(* computed acknowledgement capability (batch.rs, util.rs) and the         *)
(* base-chain validator (chain.rs).                                        *)
(*                                                                         *)
(* libnftnl itself is outside the crate.  Its batch is modelled by what    *)
(* the crate relies on: a list of pages, each holding the messages         *)
(* committed by nftnl_batch_update, a message that does not fit the        *)
(* current page being moved to a fresh page.  Pages are assumed to be at   *)
(* least one message long, and allocations are assumed to succeed (the     *)
(* abort of try_alloc! is not modelled).                                   *)
(***************************************************************************)
EXTENDS Integers, Sequences, FiniteSets, TLC

VARIABLES
    uname,             \* result of nix::sys::utsname::uname(): [ok, release]
    debug_assertions,  \* cfg!(debug_assertions) of the build
    kver,              \* the LazyLock cell KERNEL_VERSION
    ack,               \* the LazyLock cell ACK_BATCH_END_MESSAGES
    st,                \* "none" | "open" | "finalized" | "panicked"
    batch,             \* the Batch (or the Batch inside the FinalizedBatch)
    req,               \* the with_page_size call that made the batch
    calls,             \* the add calls on the batch so far, in order
    ret,               \* the status cell shared by SetElemsIter and SetElemsMsg
    iter,              \* the batch::Iter in use and the slices it yielded
    family,            \* protocol family of the table owning the chain
    setter,            \* the BaseChainSetter
    chain,             \* the base-chain attributes stored in the Chain
    result,            \* what the last try_set returned
    tpc,               \* per thread: position in its program
    tbatch,            \* per thread: the Batch it owns
    tseen,             \* per thread: values read from ACK_BATCH_END_MESSAGES
    initRuns,          \* times the ACK_BATCH_END_MESSAGES initializer ran
    input,             \* the value a function of the crate is applied to
    output,            \* what the function made of it
    elems,             \* a Set: its elements, its SetElemsIter, the messages
                       \* the iterator yielded and what was written of them
    rule               \* a Rule: its expressions and what was framed of it

vars == <<uname, debug_assertions, kver, ack, st, batch, req, calls, ret, iter,
          family, setter, chain, result, tpc, tbatch, tseen, initRuns,
          input, output, elems, rule>>

envVars == <<uname, debug_assertions>>
batchVars == <<st, batch, req, calls, ret, iter>>
chainVars == <<family, setter, chain, result>>
threadVars == <<tpc, tbatch, tseen, initRuns>>
fnVars == <<input, output>>
objVars == <<elems, rule>>

(***************************************************************************)
(* Bounds                                                                  *)
(***************************************************************************)
MaxMsgs == 3       \* messages added to one batch
MaxPages == 2      \* pages of one batch
MaxPasses == 2     \* iterations over one finalized batch
MaxRelLen == 5     \* characters of the kernel release string
NumThreads == 2    \* threads of the concurrent model
MaxThreadMsgs == 1 \* messages added by each thread of the concurrent model

(***************************************************************************)
(* Program constants                                                       *)
(***************************************************************************)
U16Max == 65535
SC_PAGESIZE == 4096
AckMinMajor == 6
AckMinMinor == 10
FirstSeq == 1

\* a u32 is kept as two 16-bit halves: [hi, lo] stands for hi * 2^16 + lo
Base == U16Max + 1

U32of(n) == [hi |-> (n \div Base) % Base, lo |-> n % Base]

U32Max == [hi |-> U16Max, lo |-> U16Max]

u32_gt(a, b) == a.hi > b.hi \/ (a.hi = b.hi /\ a.lo > b.lo)

u32_ge(a, b) == a = b \/ u32_gt(a, b)

NLM_F_REQUEST == "NLM_F_REQUEST"
NLM_F_ACK == "NLM_F_ACK"
NLM_F_EXCL == "NLM_F_EXCL"
NLM_F_CREATE == "NLM_F_CREATE"
NLM_F_APPEND == "NLM_F_APPEND"

(***************************************************************************)
(* util.rs: KERNEL_VERSION                                                 *)
(***************************************************************************)
Digits == <<"0", "1", "2", "3", "4", "5", "6", "7", "8", "9">>

IsDigit(c) == \E i \in 1..10 : Digits[i] = c

DigitVal(c) == (CHOOSE i \in 1..10 : Digits[i] = c) - 1

None == [some |-> FALSE, major |-> U32of(0), minor |-> U32of(0)]

Some(a, b) == [some |-> TRUE, major |-> a, minor |-> b]

\* str::split_once('.'): the text before and after the first '.'
split_once(s) ==
    IF \E i \in 1..Len(s) : s[i] = "."
    THEN LET i == CHOOSE k \in 1..Len(s) :
                      s[k] = "." /\ \A j \in 1..(k - 1) : s[j] # "."
         IN [some |-> TRUE, head |-> SubSeq(s, 1, i - 1),
             tail |-> SubSeq(s, i + 1, Len(s))]
    ELSE [some |-> FALSE, head |-> <<>>, tail |-> <<>>]

\* the digits of s read as a decimal number, with checked u32 arithmetic:
\* result * 10 + digit at every digit, ok = FALSE once it overflows
RECURSIVE DecimalValue(_)
DecimalValue(s) ==
    IF s = <<>> THEN [ok |-> TRUE, v |-> U32of(0)]
    ELSE LET r == DecimalValue(SubSeq(s, 1, Len(s) - 1))
             lo == r.v.lo * 10 + DigitVal(s[Len(s)])
             hi == r.v.hi * 10 + (lo \div Base)
         IN IF ~r.ok \/ hi > U16Max
            THEN [ok |-> FALSE, v |-> U32of(0)]
            ELSE [ok |-> TRUE, v |-> [hi |-> hi, lo |-> lo % Base]]

\* <u32 as FromStr>::from_str: an optional '+', then one or more digits,
\* the value within u32
parse_u32(s) ==
    LET body == IF Len(s) > 0 /\ s[1] = "+" THEN Tail(s) ELSE s
    IN IF body # <<>> /\ (\A i \in 1..Len(body) : IsDigit(body[i]))
       THEN DecimalValue(body)
       ELSE [ok |-> FALSE, v |-> U32of(0)]

\* the initializer of KERNEL_VERSION
kernel_version_init(u) ==
    IF ~u.ok THEN None
    ELSE LET first == split_once(u.release)
         IN IF ~first.some THEN None
            ELSE LET second == split_once(first.tail)
                 IN IF ~second.some THEN None
                    ELSE LET kv == parse_u32(first.head)
                             mr == parse_u32(second.head)
                         IN IF ~kv.ok THEN None
                            ELSE IF ~mr.ok THEN None
                            ELSE Some(kv.v, mr.v)

(***************************************************************************)
(* batch.rs: ACK_BATCH_END_MESSAGES                                        *)
(***************************************************************************)
\* (u32, u32) >= (u32, u32): lexicographic
tuple_ge_mutant(a, b, c, d) == u32_ge(a, c) /\ u32_ge(b, d)

tuple_ge(a, b, c, d) == u32_gt(a, c) \/ (a = c /\ u32_ge(b, d))

\* the initializer of ACK_BATCH_END_MESSAGES: panics or yields a bool
ack_init(kv, dbg) ==
    IF ~kv.some
    THEN IF dbg THEN [panic |-> TRUE, val |-> FALSE]
         ELSE [panic |-> FALSE, val |-> TRUE]
    ELSE [panic |-> FALSE,
          val |-> tuple_ge(kv.major, kv.minor, U32of(AckMinMajor),
                          U32of(AckMinMinor))]

\* LazyLock cells
Uninit == [state |-> "uninit", val |-> None]
AckUninit == [state |-> "uninit", val |-> FALSE]

\* *KERNEL_VERSION: the cell after the read
force_kver(cell, u) ==
    IF cell.state = "uninit"
    THEN [state |-> "done", val |-> kernel_version_init(u)]
    ELSE cell

\* *ACK_BATCH_END_MESSAGES read by the only thread: the cell after the read
\* ("poisoned" when the initializer panicked; reading a poisoned cell panics)
force_ack(cell, kcell, dbg) ==
    IF cell.state = "uninit"
    THEN LET r == ack_init(kcell.val, dbg)
         IN IF r.panic THEN [state |-> "poisoned", val |-> FALSE]
            ELSE [state |-> "done", val |-> r.val]
    ELSE cell

(***************************************************************************)
(* lib.rs, table.rs, chain.rs, rule.rs, set.rs: NlMsg::write               *)
(***************************************************************************)
Families == {"Unspec", "Inet", "Ipv4", "Arp", "NetDev", "Bridge", "Ipv6",
             "DecNet"}
MsgTypes == {"Add", "Del"}
Kinds == {"Table", "Chain", "Rule", "Set", "SetElems"}

\* libnftnl's nftnl_nlmsg_build_hdr: the header of an object message
nftnl_nlmsg_build_hdr(type, fam, flags, seq) ==
    [type |-> type, family |-> fam, flags |-> {NLM_F_REQUEST} \cup flags,
     seq |-> seq]

Table_write(obj, seq, msg_type) ==
    nftnl_nlmsg_build_hdr(
        IF msg_type = "Add" THEN "NFT_MSG_NEWTABLE" ELSE "NFT_MSG_DELTABLE",
        obj.table_family, {NLM_F_ACK}, seq)

Chain_write(obj, seq, msg_type) ==
    nftnl_nlmsg_build_hdr(
        IF msg_type = "Add" THEN "NFT_MSG_NEWCHAIN" ELSE "NFT_MSG_DELCHAIN",
        obj.table_family,
        IF msg_type = "Add" THEN {NLM_F_ACK, NLM_F_CREATE} ELSE {NLM_F_ACK},
        seq)

\* a rule framed without the family of its table
Rule_write_mutant(obj, seq, msg_type) ==
    nftnl_nlmsg_build_hdr(
        IF msg_type = "Add" THEN "NFT_MSG_NEWRULE" ELSE "NFT_MSG_DELRULE",
        "Unspec",
        IF msg_type = "Add"
        THEN {NLM_F_CREATE, NLM_F_APPEND, NLM_F_EXCL, NLM_F_ACK}
        ELSE {NLM_F_ACK},
        seq)

Rule_write(obj, seq, msg_type) ==
    nftnl_nlmsg_build_hdr(
        IF msg_type = "Add" THEN "NFT_MSG_NEWRULE" ELSE "NFT_MSG_DELRULE",
        obj.table_family,
        IF msg_type = "Add"
        THEN {NLM_F_CREATE, NLM_F_APPEND, NLM_F_EXCL, NLM_F_ACK}
        ELSE {NLM_F_ACK},
        seq)

Set_write(obj, seq, msg_type) ==
    nftnl_nlmsg_build_hdr(
        IF msg_type = "Add" THEN "NFT_MSG_NEWSET" ELSE "NFT_MSG_DELSET",
        obj.table_family, {NLM_F_APPEND, NLM_F_CREATE, NLM_F_ACK}, seq)

SetElemsMsg_write(obj, seq, msg_type) ==
    nftnl_nlmsg_build_hdr(
        IF msg_type = "Add" THEN "NFT_MSG_NEWSETELEM"
        ELSE "NFT_MSG_DELSETELEM",
        obj.set_family,
        IF msg_type = "Add" THEN {NLM_F_CREATE, NLM_F_EXCL, NLM_F_ACK}
        ELSE {NLM_F_ACK},
        seq)

\* the frame msg.write(buf, seq, msg_type) leaves at buf
NlMsg_write(obj, seq, msg_type) ==
    CASE obj.kind = "Table" -> Table_write(obj, seq, msg_type)
      [] obj.kind = "Chain" -> Chain_write(obj, seq, msg_type)
      [] obj.kind = "Rule" -> Rule_write(obj, seq, msg_type)
      [] obj.kind = "Set" -> Set_write(obj, seq, msg_type)
      [] obj.kind = "SetElems" -> SetElemsMsg_write(obj, seq, msg_type)

\* Table::new(name, family): the struct's family and the NFTNL_TABLE_FAMILY
\* attribute of the payload
Table_new(fam) ==
    [kind |-> "Table", table_family |-> fam, set_family |-> fam,
     attr_family |-> fam]

\* Chain::new(name, table): NFTNL_CHAIN_FAMILY is table.get_family()
Chain_new(table) ==
    [kind |-> "Chain", table_family |-> table.table_family,
     set_family |-> table.table_family, attr_family |-> table.table_family]

\* Rule::new(chain): NFTNL_RULE_FAMILY is chain.get_table().get_family()
Rule_new(ch) ==
    [kind |-> "Rule", table_family |-> ch.table_family,
     set_family |-> ch.table_family, attr_family |-> ch.table_family]

\* Set::new(name, id, table, family): the struct's family and
\* NFTNL_SET_FAMILY are the family argument
Set_new(table, fam) ==
    [kind |-> "Set", table_family |-> table.table_family, set_family |-> fam,
     attr_family |-> fam]

\* the SetElemsMsg the iterator of set.elems_iter() yields
SetElemsMsg_new(set) == [set EXCEPT !.kind = "SetElems"]

\* the objects of the batch model: one Inet table, a chain and a rule
\* under it, and the element messages of an Inet set of that table
Objects == {[kind |-> k, table_family |-> "Inet", set_family |-> "Inet"] :
            k \in Kinds \ {"Set"}}

IterObjects == {o \in Objects : o.kind \in {"Table", "Chain", "Rule"}}

PageObjects == {o \in Objects : o.kind = "Table"}

\* the statuses nftnl_set_elems_nlmsg_build_payload_iter can return
RetValues == {-1, 0, 1}

(***************************************************************************)
(* chain.rs: Priority, BaseChainSetter                                     *)
(***************************************************************************)
ChainTypes == {"Filter", "Route", "Nat"}
Hooks == {"PreRouting", "In", "Forward", "Out", "PostRouting"}
PriorityNames == {"Raw", "Mangle", "DstNat", "Filter", "Security", "SrcNat",
                  "Out"}
Policies == {"Accept", "Drop"}

I32Max == 2147483647
I32Min == -I32Max - 1

NF_IP_PRI_RAW == -300
NF_IP_PRI_MANGLE == -150
NF_IP_PRI_NAT_DST == -100
NF_IP_PRI_FILTER == 0
NF_IP_PRI_SECURITY == 50
NF_IP_PRI_NAT_SRC == 100
BRIDGE_PRI_NAT_DST == -300
BRIDGE_PRI_FILTER == -200
BRIDGE_PRI_OUT == 100
BRIDGE_PRI_NAT_SRC == 300
NAT_PRIORITY_LIMIT == -200

\* Option<i32>
NoI32 == [some |-> FALSE, v |-> 0]
SomeI32(v) == [some |-> TRUE, v |-> v]

\* Option<Priority>
NoPriority == [some |-> FALSE, kind |-> "Integer", name |-> "Raw", n |-> 0]
Integer(v) == [some |-> TRUE, kind |-> "Integer", name |-> "Raw", n |-> v]
Name(name) == [some |-> TRUE, kind |-> "Name", name |-> name, n |-> 0]
NamedOffset(name, k) ==
    [some |-> TRUE, kind |-> "NamedOffset", name |-> name, n |-> k]

InetFamilies == {"Inet", "Ipv4", "Ipv6"}

\* a table in which the Out name is defined at the Out hook of every family
Priority_named_mutant(name, fam, hook) ==
    CASE name = "Raw" /\ fam \in InetFamilies -> SomeI32(NF_IP_PRI_RAW)
      [] name = "Mangle" /\ fam \in InetFamilies -> SomeI32(NF_IP_PRI_MANGLE)
      [] name = "DstNat" /\ fam \in InetFamilies /\ hook = "PreRouting" ->
             SomeI32(NF_IP_PRI_NAT_DST)
      [] name = "Filter" /\ fam \in InetFamilies \cup {"Arp", "NetDev"} ->
             SomeI32(NF_IP_PRI_FILTER)
      [] name = "Security" /\ fam \in InetFamilies ->
             SomeI32(NF_IP_PRI_SECURITY)
      [] name = "SrcNat" /\ fam \in InetFamilies /\ hook = "PostRouting" ->
             SomeI32(NF_IP_PRI_NAT_SRC)
      [] name = "DstNat" /\ fam = "Bridge" /\ hook = "PreRouting" ->
             SomeI32(BRIDGE_PRI_NAT_DST)
      [] name = "Filter" /\ fam = "Bridge" -> SomeI32(BRIDGE_PRI_FILTER)
      [] name = "Out" /\ hook = "Out" -> SomeI32(BRIDGE_PRI_OUT)
      [] name = "SrcNat" /\ fam = "Bridge" /\ hook = "PostRouting" ->
             SomeI32(BRIDGE_PRI_NAT_SRC)
      [] OTHER -> NoI32

\* Priority::named
Priority_named(name, fam, hook) ==
    CASE name = "Raw" /\ fam \in InetFamilies -> SomeI32(NF_IP_PRI_RAW)
      [] name = "Mangle" /\ fam \in InetFamilies -> SomeI32(NF_IP_PRI_MANGLE)
      [] name = "DstNat" /\ fam \in InetFamilies /\ hook = "PreRouting" ->
             SomeI32(NF_IP_PRI_NAT_DST)
      [] name = "Filter" /\ fam \in InetFamilies \cup {"Arp", "NetDev"} ->
             SomeI32(NF_IP_PRI_FILTER)
      [] name = "Security" /\ fam \in InetFamilies ->
             SomeI32(NF_IP_PRI_SECURITY)
      [] name = "SrcNat" /\ fam \in InetFamilies /\ hook = "PostRouting" ->
             SomeI32(NF_IP_PRI_NAT_SRC)
      [] name = "DstNat" /\ fam = "Bridge" /\ hook = "PreRouting" ->
             SomeI32(BRIDGE_PRI_NAT_DST)
      [] name = "Filter" /\ fam = "Bridge" -> SomeI32(BRIDGE_PRI_FILTER)
      [] name = "Out" /\ fam = "Bridge" /\ hook = "Out" ->
             SomeI32(BRIDGE_PRI_OUT)
      [] name = "SrcNat" /\ fam = "Bridge" /\ hook = "PostRouting" ->
             SomeI32(BRIDGE_PRI_NAT_SRC)
      [] OTHER -> NoI32

\* a sum that wraps around the ends of the i32 range
i32_checked_add_mutant(a, b) ==
    IF b > 0 /\ a > I32Max - b THEN SomeI32(I32Min + (a - (I32Max - b)) - 1)
    ELSE IF b < 0 /\ a < I32Min - b
    THEN SomeI32(I32Max - ((I32Min - b) - a) + 1)
    ELSE SomeI32(a + b)

\* i32::checked_add
i32_checked_add(a, b) ==
    IF (b > 0 /\ a > I32Max - b) \/ (b < 0 /\ a < I32Min - b) THEN NoI32
    ELSE SomeI32(a + b)

\* Priority::value
Priority_value(pr, fam, hook) ==
    CASE pr.kind = "Integer" -> SomeI32(pr.n)
      [] pr.kind = "Name" -> Priority_named(pr.name, fam, hook)
      [] pr.kind = "NamedOffset" ->
             LET value == Priority_named(pr.name, fam, hook)
             IN IF value.some THEN i32_checked_add(value.v, pr.n) ELSE NoI32

\* a matrix that forgets the restriction of Arp filter chains
combination_ok_mutant(chain_type, fam, hook) ==
    CASE chain_type = "Filter" -> TRUE
      [] chain_type = "Nat" /\ fam \in InetFamilies
         /\ hook \in {"PreRouting", "In", "Out", "PostRouting"} -> TRUE
      [] chain_type = "Route" /\ fam \in InetFamilies /\ hook = "Out" -> TRUE
      [] OTHER -> FALSE

\* the match on (chain_type, family, hook) in try_set: TRUE where it does
\* not return InvalidCombination
combination_ok(chain_type, fam, hook) ==
    CASE chain_type = "Filter" /\ fam = "Arp" /\ hook \in {"In", "Out"} -> TRUE
      [] chain_type = "Filter" /\ fam = "Arp" -> FALSE
      [] chain_type = "Filter" -> TRUE
      [] chain_type = "Nat" /\ fam \in InetFamilies
         /\ hook \in {"PreRouting", "In", "Out", "PostRouting"} -> TRUE
      [] chain_type = "Route" /\ fam \in InetFamilies /\ hook = "Out" -> TRUE
      [] OTHER -> FALSE

\* a limit that lets the priority of the conntrack hook itself through
nat_priority_rejected_mutant(chain_type, priority) ==
    chain_type = "Nat" /\ priority < NAT_PRIORITY_LIMIT

\* the lower excluding limit of NAT chains in try_set
nat_priority_rejected(chain_type, priority) ==
    chain_type = "Nat" /\ priority <= NAT_PRIORITY_LIMIT

\* BaseChainSetter::default()
NewSetter == [chain_type |-> "None", hook |-> "None", priority |-> NoPriority,
              device |-> "None", policy |-> "None"]

\* the attributes of a chain made by Chain::new: its name and the name of
\* its table are set, none of the base-chain attributes is
RegularChain == [name |-> "chain", table |-> "table",
                 chain_type |-> "None", hook |-> "None", priority |-> NoI32,
                 device |-> "None", policy |-> "None"]

\* attribute writes that store the setter's device and policy even when it
\* has none, clearing what the chain held
store_base_chain_mutant(s, c, priority) ==
    [c EXCEPT !.chain_type = s.chain_type,
              !.hook = s.hook,
              !.priority = SomeI32(priority),
              !.device = s.device,
              !.policy = s.policy]

\* the attributes try_set stores once the setter is valid
store_base_chain(s, c, priority) ==
    [c EXCEPT !.chain_type = s.chain_type,
              !.hook = s.hook,
              !.priority = SomeI32(priority),
              !.device = IF s.device # "None" THEN s.device ELSE @,
              !.policy = IF s.policy # "None" THEN s.policy ELSE @]

\* a try_set that consults the matrix before it looks for a missing
\* priority
try_set_mutant(s, c, fam) ==
    IF s.chain_type = "None"
    THEN [result |-> "MissingChainType", chain |-> c]
    ELSE IF s.hook = "None"
    THEN [result |-> "MissingHook", chain |-> c]
    ELSE IF ~combination_ok(s.chain_type, fam, s.hook)
    THEN [result |-> "InvalidCombination", chain |-> c]
    ELSE IF ~s.priority.some
    THEN [result |-> "MissingPriority", chain |-> c]
    ELSE LET priority == Priority_value(s.priority, fam, s.hook)
         IN IF ~priority.some
            THEN [result |-> "InvalidPriority", chain |-> c]
            ELSE IF nat_priority_rejected(s.chain_type, priority.v)
            THEN [result |-> "InvalidPriority", chain |-> c]
            ELSE [result |-> "Ok",
                  chain |-> store_base_chain(s, c, priority.v)]

\* BaseChainSetter::try_set on a chain of a table of family fam: what it
\* returns and the chain afterwards
try_set(s, c, fam) ==
    IF s.chain_type = "None"
    THEN [result |-> "MissingChainType", chain |-> c]
    ELSE IF s.hook = "None"
    THEN [result |-> "MissingHook", chain |-> c]
    ELSE IF ~s.priority.some
    THEN [result |-> "MissingPriority", chain |-> c]
    ELSE IF ~combination_ok(s.chain_type, fam, s.hook)
    THEN [result |-> "InvalidCombination", chain |-> c]
    ELSE LET priority == Priority_value(s.priority, fam, s.hook)
         IN IF ~priority.some
            THEN [result |-> "InvalidPriority", chain |-> c]
            ELSE IF nat_priority_rejected(s.chain_type, priority.v)
            THEN [result |-> "InvalidPriority", chain |-> c]
            ELSE [result |-> "Ok",
                  chain |-> store_base_chain(s, c, priority.v)]

(***************************************************************************)
(* batch.rs: Batch                                                         *)
(***************************************************************************)
NoBatch == [pages |-> <<>>, seqs |-> [start |-> 0, end |-> 0]]
NoReq == [called |-> FALSE, p |-> U32of(0), allocated |-> FALSE,
          panic |-> "none"]
NoIter == [pass |-> 0, iovecs |-> <<>>, out |-> <<>>, prev |-> <<>>]

nft_nlmsg_maxsize == U32of(U16Max + SC_PAGESIZE)

default_batch_page_size == U32of(SC_PAGESIZE * 32)

\* a checked_add that forgets the carry of the low half
checked_add_overflows_mutant(a, b) == a.hi + b.hi > U16Max

\* u32::checked_add(a, b).is_none()
checked_add_overflows(a, b) ==
    a.hi + b.hi + ((a.lo + b.lo) \div Base) > U16Max

\* nftnl_batch_alloc: one empty page
nftnl_batch_alloc == <<(<<>>)>>

\* nftnl_batch_update: the message at the current position is committed;
\* it stays on the current page if it fits and opens a new page if not
nftnl_batch_update(pages, frame, fits) ==
    IF fits
    THEN [pages EXCEPT ![Len(pages)] = Append(@, frame)]
    ELSE Append(pages, <<frame>>)

\* whether the platform may answer "fits" with f for the next message
CanFit(pages, f) ==
    f \/ (pages[Len(pages)] # <<>> /\ Len(pages) < MaxPages)

\* libnftnl's nftnl_batch_begin / nftnl_batch_end: the framing header
nftnl_batch_hdr(type, seq) ==
    [type |-> type, family |-> "Unspec", flags |-> {NLM_F_REQUEST},
     seq |-> seq]

\* a set_f_ack that assigns the flag instead of raising it
set_f_ack_mutant(header) == [header EXCEPT !.flags = {NLM_F_ACK}]

set_f_ack(header) == [header EXCEPT !.flags = @ \cup {NLM_F_ACK}]

\* a write_begin_or_end_msg that advances the counter on every platform
write_begin_or_end_msg_mutant(b, f, kernel_supports_ack, fits) ==
    LET seq == IF kernel_supports_ack THEN b.seqs.end ELSE 0
        header == nftnl_batch_hdr(f, seq)
    IN [pages |-> nftnl_batch_update(
                      b.pages,
                      IF kernel_supports_ack THEN set_f_ack(header)
                      ELSE header,
                      fits),
        seqs |-> [b.seqs EXCEPT !.end = @ + 1]]

\* Batch::write_begin_or_end_msg with f = nftnl_batch_begin / nftnl_batch_end
write_begin_or_end_msg(b, f, kernel_supports_ack, fits) ==
    LET seq == IF kernel_supports_ack THEN b.seqs.end ELSE 0
        header == nftnl_batch_hdr(f, seq)
    IN IF kernel_supports_ack
       THEN [pages |-> nftnl_batch_update(b.pages, set_f_ack(header), fits),
             seqs |-> [b.seqs EXCEPT !.end = @ + 1]]
       ELSE [pages |-> nftnl_batch_update(b.pages, header, fits),
             seqs |-> b.seqs]

\* a next that commits the message without advancing the counter
Batch_next_mutant(b, frame, fits) ==
    [pages |-> nftnl_batch_update(b.pages, frame, fits), seqs |-> b.seqs]

\* Batch::next
Batch_next(b, frame, fits) ==
    [pages |-> nftnl_batch_update(b.pages, frame, fits),
     seqs |-> [b.seqs EXCEPT !.end = @ + 1]]

\* Batch::add
Batch_add(b, obj, msg_type, fits) ==
    Batch_next(b, NlMsg_write(obj, b.seqs.end, msg_type), fits)

\* FinalizedBatch::sequence_numbers
sequence_numbers(b) == b.seqs

\* the numbers of a Range<u32>
RangeSet(r) == {n \in 0..(r.end) : r.start <= n /\ n < r.end}

RECURSIVE Flatten(_)
Flatten(ss) == IF ss = <<>> THEN <<>> ELSE Head(ss) \o Flatten(Tail(ss))

\* the messages of the buffer, in buffer order
Frames(b) == Flatten(b.pages)

\* nftnl_batch_iovec_len: the last page is skipped when it is empty
nftnl_batch_iovec_len(pages) ==
    IF pages[Len(pages)] = <<>> THEN Len(pages) - 1 ELSE Len(pages)

\* nftnl_batch_iovec: the first n pages
nftnl_batch_iovec(pages, n) == SubSeq(pages, 1, n)

\* an iter that leaves out the last page
FinalizedBatch_iter_mutant(b) ==
    nftnl_batch_iovec(b.pages, Len(b.pages) - 1)

\* FinalizedBatch::iter
FinalizedBatch_iter(b) ==
    nftnl_batch_iovec(b.pages, nftnl_batch_iovec_len(b.pages))

(***************************************************************************)
(* The batch model: one thread creating, filling, finalizing, reading and  *)
(* dropping batches                                                        *)
(***************************************************************************)
\* the largest page size that does not overflow
LargestPageSize == [hi |-> U16Max - nft_nlmsg_maxsize.hi,
                    lo |-> U16Max - nft_nlmsg_maxsize.lo]

PageSizes == {U32of(0), U32of(SC_PAGESIZE), default_batch_page_size,
              [LargestPageSize EXCEPT !.lo = @ - 1], LargestPageSize,
              [LargestPageSize EXCEPT !.lo = @ + 1],
              [hi |-> U16Max, lo |-> 0], U32Max}

\* kernel releases of the batch model: below, at and above the threshold,
\* and one that does not parse
Releases == {<<"6", ".", "9", ".", "0">>, <<"6", ".", "1", "0", ".", "0">>,
             <<"6", ".", "1", "0">>}

ChainInitVars ==
    /\ family = "Inet"
    /\ setter = NewSetter
    /\ chain = RegularChain
    /\ result = "none"

ThreadInitVars ==
    /\ tpc = <<>>
    /\ tbatch = <<>>
    /\ tseen = <<>>
    /\ initRuns = 0

\* no function of the function models has been applied
NoInput == [kind |-> "none"]
NoOutput == [done |-> FALSE]

FnInitVars ==
    /\ input = NoInput
    /\ output = NoOutput

\* no Set and no Rule has been made
NoElems == [keys |-> <<>>, it |-> "none", cur |-> 0, held |-> 0,
            last |-> "none", payloads |-> <<>>, pc |-> "idle",
            msg_type |-> "Add", returned |-> "none"]
NoRule == [state |-> "none", srcs |-> <<>>, exprs |-> <<>>,
           framed |-> <<>>]

ObjInitVars ==
    /\ elems = NoElems
    /\ rule = NoRule

BatchInitVars ==
    /\ st = "none"
    /\ batch = NoBatch
    /\ req = NoReq
    /\ calls = <<>>
    /\ ret = 1
    /\ iter = NoIter

Init ==
    /\ uname \in [ok : {TRUE}, release : Releases]
    /\ debug_assertions \in BOOLEAN
    /\ kver = Uninit
    /\ ack = AckUninit
    /\ BatchInitVars
    /\ ChainInitVars
    /\ ThreadInitVars
    /\ FnInitVars
    /\ ObjInitVars

\* Batch::with_page_size(p)
WithPageSize(p) ==
    /\ st = "none"
    /\ UNCHANGED <<envVars, chainVars, threadVars, fnVars, objVars, calls,
                   ret, iter>>
    /\ IF checked_add_overflows(p, nft_nlmsg_maxsize)
       THEN /\ st' = "panicked"
            /\ req' = [called |-> TRUE, p |-> p, allocated |-> FALSE,
                        panic |-> "overflow"]
            /\ UNCHANGED <<batch, kver, ack>>
       ELSE LET k == force_kver(kver, uname)
                a == force_ack(ack, k, debug_assertions)
                this == [pages |-> nftnl_batch_alloc,
                         seqs |-> [start |-> FirstSeq, end |-> FirstSeq]]
            IN /\ kver' = IF ack.state = "uninit" THEN k ELSE kver
               /\ ack' = a
               /\ IF a.state = "poisoned"
                  THEN /\ st' = "panicked"
                       /\ req' = [called |-> TRUE, p |-> p,
                                  allocated |-> TRUE,
                                  panic |-> "kernel_version"]
                       /\ batch' = NoBatch
                  ELSE /\ st' = "open"
                       /\ req' = [called |-> TRUE, p |-> p,
                                  allocated |-> TRUE, panic |-> "none"]
                       /\ batch' = write_begin_or_end_msg(
                               this, "NFNL_MSG_BATCH_BEGIN", a.val, TRUE)

\* Batch::new()
New == WithPageSize(default_batch_page_size)

\* Batch::add(&msg, msg_type); writing a SetElemsMsg stores the status of
\* the page encoding in the shared cell
Add(obj, msg_type, fits, r) ==
    /\ st = "open"
    /\ Len(calls) < MaxMsgs
    /\ CanFit(batch.pages, fits)
    /\ batch' = Batch_add(batch, obj, msg_type, fits)
    /\ calls' = Append(calls, [obj |-> obj, msg_type |-> msg_type])
    /\ ret' = IF obj.kind = "SetElems" THEN r ELSE ret
    /\ obj.kind # "SetElems" => r = 1
    /\ UNCHANGED <<envVars, kver, ack, st, req, iter, chainVars, threadVars,
                   fnVars, objVars>>

\* a finalize that borrows the batch instead of consuming it
Finalize_mutant(fits) ==
    /\ st = "open"
    /\ CanFit(batch.pages, fits)
    /\ batch' = write_begin_or_end_msg(batch, "NFNL_MSG_BATCH_END", ack.val,
                                       fits)
    /\ st' = "open"
    /\ UNCHANGED <<envVars, kver, ack, req, calls, ret, iter, chainVars,
                   threadVars, fnVars, objVars>>

\* Batch::finalize(self)
Finalize(fits) ==
    /\ st = "open"
    /\ CanFit(batch.pages, fits)
    /\ batch' = write_begin_or_end_msg(batch, "NFNL_MSG_BATCH_END", ack.val,
                                       fits)
    /\ st' = "finalized"
    /\ UNCHANGED <<envVars, kver, ack, req, calls, ret, iter, chainVars,
                   threadVars, fnVars, objVars>>

\* FinalizedBatch::iter(&self)
IterStart ==
    /\ st = "finalized"
    /\ iter.pass < MaxPasses
    /\ iter.pass > 0 => iter.iovecs = <<>>
    /\ iter' = [pass |-> iter.pass + 1, iovecs |-> FinalizedBatch_iter(batch),
                out |-> <<>>, prev |-> iter.out]
    /\ UNCHANGED <<envVars, kver, ack, st, batch, req, calls, ret,
                   chainVars, threadVars, fnVars, objVars>>

\* Iter::next returning Some(slice)
IterNext ==
    /\ st = "finalized"
    /\ iter.pass > 0
    /\ iter.iovecs # <<>>
    /\ iter' = [iter EXCEPT !.iovecs = Tail(@),
                            !.out = Append(@, Head(iter.iovecs))]
    /\ UNCHANGED <<envVars, kver, ack, st, batch, req, calls, ret,
                   chainVars, threadVars, fnVars, objVars>>

\* drop of the Batch or of the FinalizedBatch (and of its Iter)
Drop ==
    /\ st \in {"open", "finalized"}
    /\ st' = "none"
    /\ batch' = NoBatch
    /\ req' = NoReq
    /\ calls' = <<>>
    /\ iter' = NoIter
    /\ ret' = 1
    /\ UNCHANGED <<envVars, kver, ack, chainVars, threadVars, fnVars,
                   objVars>>

\* the batch engine: batches are created with the default page size,
\* filled with messages of every kind and finalized
Next ==
    \/ New
    \/ \E obj \in Objects, t \in MsgTypes, fits \in BOOLEAN, r \in RetValues :
           Add(obj, t, fits, r)
    \/ \E fits \in BOOLEAN : Finalize(fits)
    \/ Drop

Spec == Init /\ [][Next]_vars

\* reading a finalized batch: table, chain and rule messages are added,
\* the batch is finalized and iterated over, up to twice
NextIter ==
    \/ New
    \/ \E obj \in IterObjects, t \in MsgTypes, fits \in BOOLEAN :
           Add(obj, t, fits, 1)
    \/ \E fits \in BOOLEAN : Finalize(fits)
    \/ IterStart
    \/ IterNext
    \/ Drop

SpecIter == Init /\ [][NextIter]_vars

\* page sizes: batches are created with page sizes around the overflow
\* limit, tables are added and the batch is finalized
NextPage ==
    \/ \E p \in PageSizes : WithPageSize(p)
    \/ \E obj \in PageObjects, fits \in BOOLEAN : Add(obj, "Add", fits, 1)
    \/ \E fits \in BOOLEAN : Finalize(fits)
    \/ Drop

SpecPage == Init /\ [][NextPage]_vars

(***************************************************************************)
(* The kernel version model: the two lazy cells are read on a platform     *)
(* with any short release string                                           *)
(***************************************************************************)
RelChars == {"0", "1", "5", "6", "7", "9", ".", "+"}

ReleaseStrings == UNION {[1..n -> RelChars] : n \in 0..MaxRelLen}

InitVersion ==
    /\ uname \in [ok : {TRUE}, release : ReleaseStrings]
                 \cup {[ok |-> FALSE, release |-> <<>>]}
    /\ debug_assertions \in BOOLEAN
    /\ kver = Uninit
    /\ ack = AckUninit
    /\ BatchInitVars
    /\ ChainInitVars
    /\ ThreadInitVars
    /\ FnInitVars
    /\ ObjInitVars

\* *KERNEL_VERSION
ReadKernelVersion ==
    /\ st = "none"
    /\ kver.state = "uninit"
    /\ kver' = force_kver(kver, uname)
    /\ UNCHANGED <<envVars, ack, batchVars, chainVars, threadVars, fnVars,
                   objVars>>

\* *ACK_BATCH_END_MESSAGES; the reader panics when the initializer does
ReadAck ==
    /\ st = "none"
    /\ ack.state = "uninit"
    /\ LET k == force_kver(kver, uname)
           a == force_ack(ack, k, debug_assertions)
       IN /\ kver' = k
          /\ ack' = a
          /\ st' = IF a.state = "poisoned" THEN "panicked" ELSE st
    /\ UNCHANGED <<envVars, batch, req, calls, ret, iter, chainVars,
                   threadVars, fnVars, objVars>>

NextVersion == ReadKernelVersion \/ ReadAck

SpecVersion == InitVersion /\ [][NextVersion]_vars

(***************************************************************************)
(* The base-chain model: a setter is built and changed with its builder    *)
(* methods and applied to a chain with try_set                             *)
(***************************************************************************)
Priorities == {Integer(NAT_PRIORITY_LIMIT), Integer(0), Name("DstNat"),
               Name("Out"), NamedOffset("Filter", I32Max)}
Devices == {"eth0"}

InitChain ==
    /\ uname = [ok |-> FALSE, release |-> <<>>]
    /\ debug_assertions = FALSE
    /\ kver = Uninit
    /\ ack = AckUninit
    /\ BatchInitVars
    /\ ThreadInitVars
    /\ FnInitVars
    /\ ObjInitVars
    /\ family \in Families
    /\ setter = NewSetter
    /\ chain = RegularChain
    /\ result = "none"

ChainFrame ==
    UNCHANGED <<envVars, kver, ack, batchVars, threadVars, fnVars, objVars,
                family>>

\* BaseChainSetter::chain_type
SetChainType(t) ==
    /\ setter' = [setter EXCEPT !.chain_type = t]
    /\ result' = "none"
    /\ UNCHANGED chain
    /\ ChainFrame

\* BaseChainSetter::hook
SetHook(h) ==
    /\ setter' = [setter EXCEPT !.hook = h]
    /\ result' = "none"
    /\ UNCHANGED chain
    /\ ChainFrame

\* BaseChainSetter::priority
SetPriority(pr) ==
    /\ setter' = [setter EXCEPT !.priority = pr]
    /\ result' = "none"
    /\ UNCHANGED chain
    /\ ChainFrame

\* BaseChainSetter::device
SetDevice(d) ==
    /\ setter' = [setter EXCEPT !.device = d]
    /\ result' = "none"
    /\ UNCHANGED chain
    /\ ChainFrame

\* BaseChainSetter::policy
SetPolicy(pol) ==
    /\ setter' = [setter EXCEPT !.policy = pol]
    /\ result' = "none"
    /\ UNCHANGED chain
    /\ ChainFrame

\* a try_set that writes the chain type before it validates the setter
TrySet_mutant ==
    /\ LET r == try_set(setter, chain, family)
       IN /\ result' = r.result
          /\ chain' = IF r.result = "Ok" THEN r.chain
                      ELSE [chain EXCEPT !.chain_type = setter.chain_type]
    /\ UNCHANGED setter
    /\ ChainFrame

\* setter.try_set(&mut chain)
TrySet ==
    /\ LET r == try_set(setter, chain, family)
       IN /\ result' = r.result
          /\ chain' = r.chain
    /\ UNCHANGED setter
    /\ ChainFrame

NextChain ==
    \/ \E t \in ChainTypes : SetChainType(t)
    \/ \E h \in Hooks : SetHook(h)
    \/ \E pr \in Priorities : SetPriority(pr)
    \/ \E d \in Devices \cup {"None"} : SetDevice(d)
    \/ \E pol \in Policies \cup {"None"} : SetPolicy(pol)
    \/ TrySet

SpecChain == InitChain /\ [][NextChain]_vars

(***************************************************************************)
(* The priority model: the base-chain model without device and policy,     *)
(* with priorities on both sides of the NAT limit, given as integers, as   *)
(* names and as names with an offset                                       *)
(***************************************************************************)
LimitPriorities ==
    {Integer(NAT_PRIORITY_LIMIT - 1), Integer(NAT_PRIORITY_LIMIT),
     Integer(NAT_PRIORITY_LIMIT + 1), Integer(I32Min), Integer(I32Max),
     Name("Raw"), Name("Mangle"), Name("DstNat"), Name("Filter"),
     NamedOffset("DstNat", -100), NamedOffset("DstNat", -99),
     NamedOffset("Raw", I32Min)}

NextPriority ==
    \/ \E t \in ChainTypes : SetChainType(t)
    \/ \E h \in Hooks : SetHook(h)
    \/ \E pr \in LimitPriorities : SetPriority(pr)
    \/ TrySet

SpecPriority == InitChain /\ [][NextPriority]_vars

(***************************************************************************)
(* The function models: a function of the crate is applied to one input    *)
(***************************************************************************)
FnFrame ==
    UNCHANGED <<envVars, kver, ack, batchVars, chainVars, threadVars,
                objVars>>

FnInit(inputs) ==
    /\ uname = [ok |-> FALSE, release |-> <<>>]
    /\ debug_assertions = FALSE
    /\ kver = Uninit
    /\ ack = AckUninit
    /\ BatchInitVars
    /\ ChainInitVars
    /\ ThreadInitVars
    /\ input \in inputs
    /\ output = NoOutput
    /\ ObjInitVars

\* Priority::value: every name, alone and with an offset, and integers
Offsets == {I32Min, -1, 0, 1, I32Max}

ValuePriorities ==
    {Integer(v) : v \in Offsets \cup {NF_IP_PRI_RAW, NAT_PRIORITY_LIMIT,
                                      BRIDGE_PRI_OUT}}
    \cup {Name(n) : n \in PriorityNames}
    \cup {NamedOffset(n, k) : n \in PriorityNames, k \in Offsets}

ValueInputs == [kind : {"Priority"}, priority : ValuePriorities,
                family : Families, hook : Hooks]

InitValue == FnInit(ValueInputs)

\* priority.value(family, hook)
Value_call ==
    /\ input.kind = "Priority"
    /\ ~output.done
    /\ output' = [done |-> TRUE,
                  val |-> Priority_value(input.priority, input.family,
                                         input.hook)]
    /\ UNCHANGED input
    /\ FnFrame

NextValue == Value_call

SpecValue == InitValue /\ [][NextValue]_vars

\* NlMsg::write: every kind of object, under tables of every family, with
\* several sequence numbers, for Add and Del
WriteTables == {Table_new(fam) : fam \in Families}
WriteSets == {Set_new(t, fam) : t \in WriteTables, fam \in Families}
WriteObjects ==
    WriteTables
    \cup {Chain_new(t) : t \in WriteTables}
    \cup {Rule_new(Chain_new(t)) : t \in WriteTables}
    \cup WriteSets
    \cup {SetElemsMsg_new(set) : set \in WriteSets}

WriteSeqs == {0, 1, 2, I32Max}

WriteInputs == [kind : {"NlMsg"}, obj : WriteObjects, seq : WriteSeqs,
                msg_type : MsgTypes]

InitWrite == FnInit(WriteInputs)

\* msg.write(buf, seq, msg_type)
Write_call ==
    /\ input.kind = "NlMsg"
    /\ ~output.done
    /\ output' = [done |-> TRUE,
                  val |-> NlMsg_write(input.obj, input.seq, input.msg_type)]
    /\ UNCHANGED input
    /\ FnFrame

NextWrite == Write_call

SpecWrite == InitWrite /\ [][NextWrite]_vars

(***************************************************************************)
(* expr/: the expressions and their encoding as nftnl_expr attribute trees *)
(***************************************************************************)
NFT_REG_1 == 1

NFT_CMP_EQ == 0
NFT_CMP_NEQ == 1
NFT_CMP_LT == 2
NFT_CMP_LTE == 3
NFT_CMP_GT == 4
NFT_CMP_GTE == 5

NFT_META_PROTOCOL == 1
NFT_META_IIF == 4
NFT_META_OIF == 5
NFT_META_IIFNAME == 6
NFT_META_OIFNAME == 7
NFT_META_IIFTYPE == 8
NFT_META_OIFTYPE == 9
NFT_META_NFPROTO == 15
NFT_META_L4PROTO == 16
NFT_META_CGROUP == 23
NFT_META_PRANDOM == 24

NFT_CT_STATE == 0
NFT_CT_STATUS == 2
NFT_CT_MARK == 3
NFT_CT_ZONE == 17

NFT_PAYLOAD_LL_HEADER == 0
NFT_PAYLOAD_NETWORK_HEADER == 1
NFT_PAYLOAD_TRANSPORT_HEADER == 2

FIB_RESULT_OIF == 1
FIB_RESULT_OIFNAME == 2
FIB_RESULT_ADDRTYPE == 3

\* libnftnl: a fresh expression of the given name, without attributes
nftnl_expr_alloc(name) == [name |-> name, attrs |-> <<>>]

\* libnftnl: nftnl_expr_set_u32(expr, attr, value)
nftnl_expr_set_u32(expr, attr, value) ==
    [expr EXCEPT !.attrs = (attr :> value) @@ @]

\* libnftnl: nftnl_expr_set(expr, attr, data, len) copies len bytes of data
nftnl_expr_set(expr, attr, data, len) ==
    [expr EXCEPT !.attrs = (attr :> SubSeq(data, 1, len)) @@ @]

\* `as u8`: the low eight bits
as_u8(n) == n % 256

\* impl ToSlice for u8
u8_to_slice(v) == <<v>>

\* a u16 serializer that puts the high byte first
u16_to_slice_mutant(v) == <<as_u8(v \div 256), v % 256>>

\* impl ToSlice for u16: b0 = self & 0x00ff, b1 = self >> 8
u16_to_slice(v) == <<v % 256, as_u8(v \div 256)>>

\* impl ToSlice for u32, on the two 16-bit halves of the value
u32_to_slice(v) ==
    <<as_u8(v.lo), as_u8(v.lo \div 256), as_u8(v.hi), as_u8(v.hi \div 256)>>

\* Ipv6Addr::octets of the address with the given eight segments: every
\* segment high byte first
Ipv6Addr_octets(segments) ==
    [i \in 1..16 |-> IF i % 2 = 1 THEN segments[(i + 1) \div 2] \div 256
                     ELSE segments[i \div 2] % 256]

\* impl ToSlice for Ipv6Addr
Ipv6Addr_to_slice(segments) == Ipv6Addr_octets(segments)

\* impl ToSlice for [u8; 0]
empty_to_slice == <<>>

\* ToSlice::to_slice of an operand
to_slice(d) ==
    CASE d.ty = "u8" -> u8_to_slice(d.u8)
      [] d.ty = "u16" -> u16_to_slice(d.u16)
      [] d.ty = "u32" -> u32_to_slice(d.u32)
      [] d.ty = "Ipv6Addr" -> Ipv6Addr_to_slice(d.segments)
      [] d.ty = "empty" -> empty_to_slice

CmpOps == {"Eq", "Neq", "Lt", "Lte", "Gt", "Gte"}

\* CmpOp::to_raw
CmpOp_to_raw(op) ==
    CASE op = "Eq" -> NFT_CMP_EQ
      [] op = "Neq" -> NFT_CMP_NEQ
      [] op = "Lt" -> NFT_CMP_LT
      [] op = "Lte" -> NFT_CMP_LTE
      [] op = "Gt" -> NFT_CMP_GT
      [] op = "Gte" -> NFT_CMP_GTE

\* what to_expr gives back: the expression, or a panic
Returned(expr) == [done |-> TRUE, panic |-> FALSE, val |-> expr]
Panicked(expr) == [done |-> TRUE, panic |-> TRUE, val |-> expr]

\* impl Expression for Cmp
Cmp_to_expr(c) ==
    LET expr == nftnl_expr_alloc("cmp")
        data == to_slice(c.data)
        e1 == nftnl_expr_set_u32(expr, "NFTNL_EXPR_CMP_SREG", NFT_REG_1)
        e2 == nftnl_expr_set_u32(e1, "NFTNL_EXPR_CMP_OP", CmpOp_to_raw(c.op))
        e3 == nftnl_expr_set(e2, "NFTNL_EXPR_CMP_DATA", data, Len(data))
    IN Returned(e3)

\* a Bitwise encoder without the assertion on the two lengths
Bitwise_to_expr_mutant(b) ==
    LET expr == nftnl_expr_alloc("bitwise")
        mask == to_slice(b.mask)
        xor == to_slice(b.xor)
        len == Len(mask)
        e1 == nftnl_expr_set_u32(expr, "NFTNL_EXPR_BITWISE_SREG", NFT_REG_1)
        e2 == nftnl_expr_set_u32(e1, "NFTNL_EXPR_BITWISE_DREG", NFT_REG_1)
        e3 == nftnl_expr_set_u32(e2, "NFTNL_EXPR_BITWISE_LEN", len)
        e4 == nftnl_expr_set(e3, "NFTNL_EXPR_BITWISE_MASK", mask, len)
        e5 == nftnl_expr_set(e4, "NFTNL_EXPR_BITWISE_XOR", xor, Len(xor))
    IN Returned(e5)

\* impl Expression for Bitwise
Bitwise_to_expr(b) ==
    LET expr == nftnl_expr_alloc("bitwise")
        mask == to_slice(b.mask)
        xor == to_slice(b.xor)
        len == Len(mask)
        e1 == nftnl_expr_set_u32(expr, "NFTNL_EXPR_BITWISE_SREG", NFT_REG_1)
        e2 == nftnl_expr_set_u32(e1, "NFTNL_EXPR_BITWISE_DREG", NFT_REG_1)
        e3 == nftnl_expr_set_u32(e2, "NFTNL_EXPR_BITWISE_LEN", len)
        e4 == nftnl_expr_set(e3, "NFTNL_EXPR_BITWISE_MASK", mask, len)
        e5 == nftnl_expr_set(e4, "NFTNL_EXPR_BITWISE_XOR", xor, len)
    IN IF Len(mask) # Len(xor) THEN Panicked(expr) ELSE Returned(e5)

ConntrackKeys == {"State", "Status", "Mark", "Zone"}

\* Conntrack::State, Conntrack::Status, Conntrack::Mark { set },
\* Conntrack::Zone { set }
Conntracks ==
    {[key |-> k] : k \in {"State", "Status"}}
    \cup {[key |-> k, set |-> b] : k \in {"Mark", "Zone"}, b \in BOOLEAN}

\* Conntrack::raw_key
Conntrack_raw_key(ct) ==
    CASE ct.key = "State" -> NFT_CT_STATE
      [] ct.key = "Status" -> NFT_CT_STATUS
      [] ct.key = "Mark" -> NFT_CT_MARK
      [] ct.key = "Zone" -> NFT_CT_ZONE

\* a Conntrack encoder that always loads into the destination register
Conntrack_to_expr_mutant(ct) ==
    LET expr == nftnl_expr_alloc("ct")
        e1 == nftnl_expr_set_u32(expr, "NFTNL_EXPR_CT_DREG", NFT_REG_1)
        e2 == nftnl_expr_set_u32(e1, "NFTNL_EXPR_CT_KEY",
                                 Conntrack_raw_key(ct))
    IN Returned(e2)

\* impl Expression for Conntrack
Conntrack_to_expr(ct) ==
    LET expr == nftnl_expr_alloc("ct")
        e1 == IF ct.key \in {"Mark", "Zone"} /\ ct.set
              THEN nftnl_expr_set_u32(expr, "NFTNL_EXPR_CT_SREG", NFT_REG_1)
              ELSE nftnl_expr_set_u32(expr, "NFTNL_EXPR_CT_DREG", NFT_REG_1)
        e2 == nftnl_expr_set_u32(e1, "NFTNL_EXPR_CT_KEY",
                                 Conntrack_raw_key(ct))
    IN Returned(e2)

Metas == {"Protocol", "Iif", "Oif", "IifName", "OifName", "IifType",
          "OifType", "NfProto", "L4Proto", "Cgroup", "PRandom"}

\* a key table in which the output interface index has the code of the
\* input interface index
Meta_to_raw_key_mutant(m) ==
    CASE m = "Protocol" -> NFT_META_PROTOCOL
      [] m = "Iif" -> NFT_META_IIF
      [] m = "Oif" -> NFT_META_IIF
      [] m = "IifName" -> NFT_META_IIFNAME
      [] m = "OifName" -> NFT_META_OIFNAME
      [] m = "IifType" -> NFT_META_IIFTYPE
      [] m = "OifType" -> NFT_META_OIFTYPE
      [] m = "NfProto" -> NFT_META_NFPROTO
      [] m = "L4Proto" -> NFT_META_L4PROTO
      [] m = "Cgroup" -> NFT_META_CGROUP
      [] m = "PRandom" -> NFT_META_PRANDOM

\* Meta::to_raw_key
Meta_to_raw_key(m) ==
    CASE m = "Protocol" -> NFT_META_PROTOCOL
      [] m = "Iif" -> NFT_META_IIF
      [] m = "Oif" -> NFT_META_OIF
      [] m = "IifName" -> NFT_META_IIFNAME
      [] m = "OifName" -> NFT_META_OIFNAME
      [] m = "IifType" -> NFT_META_IIFTYPE
      [] m = "OifType" -> NFT_META_OIFTYPE
      [] m = "NfProto" -> NFT_META_NFPROTO
      [] m = "L4Proto" -> NFT_META_L4PROTO
      [] m = "Cgroup" -> NFT_META_CGROUP
      [] m = "PRandom" -> NFT_META_PRANDOM

\* impl Expression for Meta
Meta_to_expr(m) ==
    LET expr == nftnl_expr_alloc("meta")
        e1 == nftnl_expr_set_u32(expr, "NFTNL_EXPR_META_DREG", NFT_REG_1)
        e2 == nftnl_expr_set_u32(e1, "NFTNL_EXPR_META_KEY",
                                 Meta_to_raw_key(m))
    IN Returned(e2)

\* the header fields: LLHeaderField, Ipv4HeaderField, Ipv6HeaderField,
\* TcpHeaderField, UdpHeaderField, Icmpv6HeaderField
HeaderFields ==
    [LinkLayer |-> {"Daddr", "Saddr", "EtherType"},
     Ipv4 |-> {"Ttl", "Protocol", "Saddr", "Daddr"},
     Ipv6 |-> {"NextHeader", "HopLimit", "Saddr", "Daddr"},
     Tcp |-> {"Sport", "Dport"},
     Udp |-> {"Sport", "Dport", "Len"},
     Icmpv6 |-> {"Type", "Code", "Checksum"}]

\* Payload::LinkLayer(f), Payload::Network(Ipv4(f) | Ipv6(f)),
\* Payload::Transport(Tcp(f) | Udp(f) | Icmpv6(f))
HeaderLayer(h) ==
    CASE h = "LinkLayer" -> "LinkLayer"
      [] h \in {"Ipv4", "Ipv6"} -> "Network"
      [] h \in {"Tcp", "Udp", "Icmpv6"} -> "Transport"

Payloads ==
    UNION {{[layer |-> HeaderLayer(h), header |-> h, field |-> f] :
               f \in HeaderFields[h]} : h \in DOMAIN HeaderFields}

\* Payload::base
Payload_base(p) ==
    CASE p.layer = "LinkLayer" -> NFT_PAYLOAD_LL_HEADER
      [] p.layer = "Network" -> NFT_PAYLOAD_NETWORK_HEADER
      [] p.layer = "Transport" -> NFT_PAYLOAD_TRANSPORT_HEADER

\* HeaderField::offset
Payload_offset(p) ==
    CASE p.header = "LinkLayer" /\ p.field = "Daddr" -> 0
      [] p.header = "LinkLayer" /\ p.field = "Saddr" -> 6
      [] p.header = "LinkLayer" /\ p.field = "EtherType" -> 12
      [] p.header = "Ipv4" /\ p.field = "Ttl" -> 8
      [] p.header = "Ipv4" /\ p.field = "Protocol" -> 9
      [] p.header = "Ipv4" /\ p.field = "Saddr" -> 12
      [] p.header = "Ipv4" /\ p.field = "Daddr" -> 16
      [] p.header = "Ipv6" /\ p.field = "NextHeader" -> 6
      [] p.header = "Ipv6" /\ p.field = "HopLimit" -> 7
      [] p.header = "Ipv6" /\ p.field = "Saddr" -> 8
      [] p.header = "Ipv6" /\ p.field = "Daddr" -> 24
      [] p.header = "Tcp" /\ p.field = "Sport" -> 0
      [] p.header = "Tcp" /\ p.field = "Dport" -> 2
      [] p.header = "Udp" /\ p.field = "Sport" -> 0
      [] p.header = "Udp" /\ p.field = "Dport" -> 2
      [] p.header = "Udp" /\ p.field = "Len" -> 4
      [] p.header = "Icmpv6" /\ p.field = "Type" -> 0
      [] p.header = "Icmpv6" /\ p.field = "Code" -> 1
      [] p.header = "Icmpv6" /\ p.field = "Checksum" -> 2

\* HeaderField::len
Payload_len(p) ==
    CASE p.header = "LinkLayer" /\ p.field = "Daddr" -> 6
      [] p.header = "LinkLayer" /\ p.field = "Saddr" -> 6
      [] p.header = "LinkLayer" /\ p.field = "EtherType" -> 2
      [] p.header = "Ipv4" /\ p.field = "Ttl" -> 1
      [] p.header = "Ipv4" /\ p.field = "Protocol" -> 1
      [] p.header = "Ipv4" /\ p.field = "Saddr" -> 4
      [] p.header = "Ipv4" /\ p.field = "Daddr" -> 4
      [] p.header = "Ipv6" /\ p.field = "NextHeader" -> 1
      [] p.header = "Ipv6" /\ p.field = "HopLimit" -> 1
      [] p.header = "Ipv6" /\ p.field = "Saddr" -> 16
      [] p.header = "Ipv6" /\ p.field = "Daddr" -> 16
      [] p.header = "Tcp" /\ p.field = "Sport" -> 2
      [] p.header = "Tcp" /\ p.field = "Dport" -> 2
      [] p.header = "Udp" /\ p.field = "Sport" -> 2
      [] p.header = "Udp" /\ p.field = "Dport" -> 2
      [] p.header = "Udp" /\ p.field = "Len" -> 2
      [] p.header = "Icmpv6" /\ p.field = "Type" -> 1
      [] p.header = "Icmpv6" /\ p.field = "Code" -> 1
      [] p.header = "Icmpv6" /\ p.field = "Checksum" -> 2

\* impl Expression for Payload
Payload_to_expr(p) ==
    LET expr == nftnl_expr_alloc("payload")
        e1 == nftnl_expr_set_u32(expr, "NFTNL_EXPR_PAYLOAD_BASE",
                                 Payload_base(p))
        e2 == nftnl_expr_set_u32(e1, "NFTNL_EXPR_PAYLOAD_OFFSET",
                                 Payload_offset(p))
        e3 == nftnl_expr_set_u32(e2, "NFTNL_EXPR_PAYLOAD_LEN", Payload_len(p))
        e4 == nftnl_expr_set_u32(e3, "NFTNL_EXPR_PAYLOAD_DREG", NFT_REG_1)
    IN Returned(e4)

FibResults == {"Oif", "OifName", "AddrType"}

\* FibResult::raw_result_type
FibResult_raw_result_type(r) ==
    CASE r = "Oif" -> FIB_RESULT_OIF
      [] r = "OifName" -> FIB_RESULT_OIFNAME
      [] r = "AddrType" -> FIB_RESULT_ADDRTYPE

(***************************************************************************)
(* The expression model: one expression is compiled with to_expr           *)
(***************************************************************************)
U8s == 0..255
ByteSamples == {0, 1, 18, 52, 127, 128, 255}
U16s == {b0 + 256 * b1 : b0 \in ByteSamples, b1 \in ByteSamples}
U32s == [hi : U16s, lo : U16s]
Ipv6Addrs == {<<0, 0, 0, 0, 0, 0, 0, 1>>,
              <<8193, 3512, 0, 0, 0, 0, 0, 1>>,
              <<1, 2, 3, 4, 5, 6, 7, 8>>,
              <<65280, 255, 256, 1, 4660, 43981, 0, 65535>>,
              <<65535, 65535, 65535, 65535, 65535, 65535, 65535, 65535>>}

\* the operands: a u8, a u16, a u32, an Ipv6Addr, a [u8; 0]
OfU8(v) == [ty |-> "u8", u8 |-> v]
OfU16(v) == [ty |-> "u16", u16 |-> v]
OfU32(v) == [ty |-> "u32", u32 |-> v]
OfIpv6Addr(v) == [ty |-> "Ipv6Addr", segments |-> v]
OfEmpty == [ty |-> "empty"]

CmpOperands ==
    {OfU8(v) : v \in U8s} \cup {OfU16(v) : v \in U16s}
    \cup {OfU32(v) : v \in U32s} \cup {OfIpv6Addr(v) : v \in Ipv6Addrs}

BitwiseOperands ==
    {OfEmpty, OfU8(0), OfU8(255), OfU16(65280), OfU16(4660), OfU32(U32Max),
     OfU32(U32of(255)),
     OfIpv6Addr(<<65535, 65535, 65535, 65535, 0, 0, 0, 0>>),
     OfIpv6Addr(<<0, 0, 0, 0, 0, 0, 0, 1>>)}

ExprInputs ==
    [kind : {"Cmp"}, op : CmpOps, data : CmpOperands]
    \cup [kind : {"Bitwise"}, mask : BitwiseOperands, xor : BitwiseOperands]
    \cup [kind : {"Conntrack"}, ct : Conntracks]
    \cup [kind : {"Meta"}, meta : Metas]
    \cup [kind : {"Payload"}, payload : Payloads]
    \cup [kind : {"FibResult"}, result : FibResults]

InitExpr == FnInit(ExprInputs)

\* the step of one call: the input is kept, the result is recorded
FnCall(kind, out) ==
    /\ input.kind = kind
    /\ ~output.done
    /\ output' = out
    /\ UNCHANGED input
    /\ FnFrame

\* Cmp::new(op, data).to_expr(rule)
Cmp_call == FnCall("Cmp", Cmp_to_expr(input))

\* Bitwise::new(mask, xor).to_expr(rule)
Bitwise_call == FnCall("Bitwise", Bitwise_to_expr(input))

\* conntrack.to_expr(rule)
Conntrack_call == FnCall("Conntrack", Conntrack_to_expr(input.ct))

\* meta.to_expr(rule)
Meta_call == FnCall("Meta", Meta_to_expr(input.meta))

\* payload.to_expr(rule)
Payload_call == FnCall("Payload", Payload_to_expr(input.payload))

\* fib_result.raw_result_type()
FibResult_call ==
    FnCall("FibResult",
           [done |-> TRUE, panic |-> FALSE,
            val |-> FibResult_raw_result_type(input.result)])

NextExpr ==
    \/ Cmp_call
    \/ Bitwise_call
    \/ Conntrack_call
    \/ Meta_call
    \/ Payload_call
    \/ FibResult_call

SpecExpr == InitExpr /\ [][NextExpr]_vars

(***************************************************************************)
(* The concurrent model: every thread creates a batch, adds tables to it   *)
(* and finalizes it.  The reads of ACK_BATCH_END_MESSAGES go through the   *)
(* LazyLock: the first thread to arrive runs the initializer while the     *)
(* others wait for it.                                                     *)
(***************************************************************************)
Threads == 1..NumThreads

TableObject == [kind |-> "Table", table_family |-> "Inet",
                set_family |-> "Inet"]

InitLazy ==
    /\ uname \in [ok : {TRUE}, release : Releases]
    /\ debug_assertions \in BOOLEAN
    /\ kver = Uninit
    /\ ack = AckUninit
    /\ BatchInitVars
    /\ ChainInitVars
    /\ tpc = [t \in Threads |-> "idle"]
    /\ tbatch = [t \in Threads |-> NoBatch]
    /\ tseen = [t \in Threads |-> <<>>]
    /\ initRuns = 0
    /\ FnInitVars
    /\ ObjInitVars

LazyFrame == UNCHANGED <<envVars, batchVars, chainVars, fnVars, objVars>>

\* Batch::with_page_size up to the read of ACK_BATCH_END_MESSAGES in
\* write_begin_msg
TStart(t) ==
    /\ tpc[t] = "idle"
    /\ tpc' = [tpc EXCEPT ![t] = "begin"]
    /\ tbatch' = [tbatch EXCEPT ![t] =
                      [pages |-> nftnl_batch_alloc,
                       seqs |-> [start |-> FirstSeq, end |-> FirstSeq]]]
    /\ UNCHANGED <<kver, ack, tseen, initRuns>>
    /\ LazyFrame

\* a LazyLock that lets a second thread in while the initializer runs
TEnter_mutant(t) ==
    /\ tpc[t] = "begin"
    /\ ack.state \in {"uninit", "running"}
    /\ ack' = [ack EXCEPT !.state = "running"]
    /\ tpc' = [tpc EXCEPT ![t] = "init"]
    /\ UNCHANGED <<kver, tbatch, tseen, initRuns>>
    /\ LazyFrame

\* LazyLock::deref finding the cell uninitialized: the thread takes the
\* cell and will run the initializer
TEnter(t) ==
    /\ tpc[t] = "begin"
    /\ ack.state = "uninit"
    /\ ack' = [ack EXCEPT !.state = "running"]
    /\ tpc' = [tpc EXCEPT ![t] = "init"]
    /\ UNCHANGED <<kver, tbatch, tseen, initRuns>>
    /\ LazyFrame

\* the initializer of ACK_BATCH_END_MESSAGES run by the thread that took
\* the cell: the cell gets its value, or is poisoned when it panics
TInit(t) ==
    /\ tpc[t] = "init"
    /\ LET k == force_kver(kver, uname)
           r == ack_init(k.val, debug_assertions)
       IN /\ kver' = k
          /\ initRuns' = initRuns + 1
          /\ IF r.panic
             THEN /\ ack' = [state |-> "poisoned", val |-> FALSE]
                  /\ tpc' = [tpc EXCEPT ![t] = "panicked"]
             ELSE /\ ack' = [state |-> "done", val |-> r.val]
                  /\ tpc' = [tpc EXCEPT ![t] = "begin"]
    /\ UNCHANGED <<tbatch, tseen>>
    /\ LazyFrame

\* LazyLock::deref finding the cell poisoned: the reader panics
TPoisoned(t) ==
    /\ tpc[t] = "begin"
    /\ ack.state = "poisoned"
    /\ tpc' = [tpc EXCEPT ![t] = "panicked"]
    /\ UNCHANGED <<kver, ack, tbatch, tseen, initRuns>>
    /\ LazyFrame

\* write_begin_msg from the read of the initialized cell on
TWriteBegin(t) ==
    /\ tpc[t] = "begin"
    /\ ack.state = "done"
    /\ tseen' = [tseen EXCEPT ![t] = Append(@, ack.val)]
    /\ tbatch' = [tbatch EXCEPT ![t] =
                      write_begin_or_end_msg(@, "NFNL_MSG_BATCH_BEGIN",
                                             ack.val, TRUE)]
    /\ tpc' = [tpc EXCEPT ![t] = "open"]
    /\ UNCHANGED <<kver, ack, initRuns>>
    /\ LazyFrame

\* Batch::add of a table
TAdd(t) ==
    /\ tpc[t] = "open"
    /\ Len(Frames(tbatch[t])) < MaxThreadMsgs + 1
    /\ tbatch' = [tbatch EXCEPT ![t] = Batch_add(@, TableObject, "Add", TRUE)]
    /\ UNCHANGED <<kver, ack, tpc, tseen, initRuns>>
    /\ LazyFrame

\* Batch::finalize: the cell was initialized when the begin-frame was
\* written
TFinalize(t) ==
    /\ tpc[t] = "open"
    /\ ack.state = "done"
    /\ tseen' = [tseen EXCEPT ![t] = Append(@, ack.val)]
    /\ tbatch' = [tbatch EXCEPT ![t] =
                      write_begin_or_end_msg(@, "NFNL_MSG_BATCH_END",
                                             ack.val, TRUE)]
    /\ tpc' = [tpc EXCEPT ![t] = "finalized"]
    /\ UNCHANGED <<kver, ack, initRuns>>
    /\ LazyFrame

NextLazy ==
    \E t \in Threads :
        \/ TStart(t)
        \/ TEnter(t)
        \/ TInit(t)
        \/ TPoisoned(t)
        \/ TWriteBegin(t)
        \/ TAdd(t)
        \/ TFinalize(t)

SpecLazy == InitLazy /\ [][NextLazy]_vars

(***************************************************************************)
(* The resolution model: Priority::value and BaseChainSetter::try_set      *)
(* applied to one input each, with named priorities carrying offsets at    *)
(* the ends of the i32 range                                               *)
(***************************************************************************)
ResolvePriorities ==
    {Name(n) : n \in PriorityNames}
    \cup {NamedOffset(n, k) : n \in PriorityNames, k \in Offsets}

\* complete setters, without device and policy
ResolveSetters ==
    {[NewSetter EXCEPT !.chain_type = t, !.hook = h, !.priority = pr] :
        t \in ChainTypes, h \in Hooks, pr \in ResolvePriorities}

ResolveInputs ==
    ValueInputs
    \cup [kind : {"TrySet"}, setter : ResolveSetters, table : Families]

InitResolve == FnInit(ResolveInputs)

\* setter.try_set(&mut chain) on a chain fresh from Chain::new
TrySet_call ==
    FnCall("TrySet",
           [done |-> TRUE,
            val |-> try_set(input.setter, RegularChain, input.table)])

NextResolve ==
    \/ Value_call
    \/ TrySet_call

SpecResolve == InitResolve /\ [][NextResolve]_vars

(***************************************************************************)
(* set.rs: Set, SetElemsIter, SetElemsMsg.  The fields of elems:           *)
(*   keys      the elements of the set, in the order of the set's list     *)
(*   it        "none" | "live" | "dropped": the SetElemsIter               *)
(*   cur       the cursor of the nftnl_set_elems_iter: the index of its    *)
(*             current element, 0 for NULL, Len(keys) + 1 past the last    *)
(*   held      the SetElemsMsg values yielded and not yet dropped          *)
(*   last      what next returned, when next was the last call             *)
(*   payloads  the elements of every element message written, in order    *)
(*   pc, msg_type, returned    the add_iter call in progress               *)
(***************************************************************************)
MaxElems == 4
ElemsPerPage == 2
MaxHeld == 2

Keys == {"a", "b"}

\* a message of the iterator of an Inet set of an Inet table
ElemsMsg == [kind |-> "SetElems", table_family |-> "Inet",
             set_family |-> "Inet"]

\* nftnl_set_elem_add: the element goes to the tail of the set's list
nftnl_set_elem_add(keys, key) == Append(keys, key)

\* nftnl_set_elems_iter_create: the cursor is at the first element, and
\* NULL when the set has none
nftnl_set_elems_iter_create(keys) == IF keys = <<>> THEN 0 ELSE 1

\* nftnl_set_elems_iter_cur(iter).is_null()
cur_is_null(keys, cur) == cur = 0 \/ cur > Len(keys)

\* nftnl_set_elems_nlmsg_build_payload_iter: the elements from the cursor
\* on are encoded until the message is full; 0 when the last element has
\* been encoded, 1 when the message is full and elements remain, the
\* cursor then at the first element left out
nftnl_set_elems_nlmsg_build_payload_iter(keys, cur) ==
    IF cur_is_null(keys, cur)
    THEN [status |-> 0, cur |-> cur, encoded |-> <<>>]
    ELSE IF Len(keys) - cur + 1 <= ElemsPerPage
    THEN [status |-> 0, cur |-> Len(keys) + 1,
          encoded |-> SubSeq(keys, cur, Len(keys))]
    ELSE [status |-> 1, cur |-> cur + ElemsPerPage,
          encoded |-> SubSeq(keys, cur, cur + ElemsPerPage - 1)]

\* a next that looks at the status only
SetElemsIter_next_mutant(e, r) == IF r <= 0 THEN "None" ELSE "Some"

\* SetElemsIter::next: whether it returns None or Some(SetElemsMsg)
SetElemsIter_next(e, r) ==
    IF r <= 0 \/ cur_is_null(e.keys, e.cur) THEN "None" ELSE "Some"

\* SetElemsMsg::write after the header: the page is encoded through the
\* iterator the message shares with the SetElemsIter
SetElemsMsg_encode(e) ==
    LET p == nftnl_set_elems_nlmsg_build_payload_iter(e.keys, e.cur)
    IN [status |-> p.status,
        elems |-> [e EXCEPT !.cur = p.cur,
                            !.payloads = Append(@, p.encoded),
                            !.last = "none"]]

ElemsFrame ==
    UNCHANGED <<envVars, kver, ack, req, iter, chainVars, threadVars, fnVars,
                rule>>

\* set.add(&key); the borrow of elems_iter rules it out once an iterator
\* has been made
Set_add(key) ==
    /\ elems.it = "none"
    /\ Len(elems.keys) < MaxElems
    /\ elems' = [elems EXCEPT !.keys = nftnl_set_elem_add(@, key)]
    /\ UNCHANGED <<st, batch, calls, ret>>
    /\ ElemsFrame

\* set.elems_iter(): SetElemsIter::new
Set_elems_iter ==
    /\ elems.it = "none"
    /\ elems' = [elems EXCEPT
                    !.it = "live",
                    !.cur = nftnl_set_elems_iter_create(elems.keys)]
    /\ ret' = 1
    /\ UNCHANGED <<st, batch, calls>>
    /\ ElemsFrame

\* a next that steps the cursor to the following element
Iter_next_mutant ==
    /\ elems.it = "live" /\ elems.pc = "idle"
    /\ elems.held < MaxHeld
    /\ LET o == SetElemsIter_next(elems, ret)
       IN elems' = [elems EXCEPT
                       !.last = o,
                       !.held = IF o = "Some" THEN @ + 1 ELSE @,
                       !.cur = IF o = "Some" THEN @ + 1 ELSE @]
    /\ UNCHANGED <<st, batch, calls, ret>>
    /\ ElemsFrame

\* iter.next() called by the owner of the iterator, who keeps the message
Iter_next ==
    /\ elems.it = "live" /\ elems.pc = "idle"
    /\ elems.held < MaxHeld
    /\ LET o == SetElemsIter_next(elems, ret)
       IN elems' = [elems EXCEPT
                       !.last = o,
                       !.held = IF o = "Some" THEN @ + 1 ELSE @]
    /\ UNCHANGED <<st, batch, calls, ret>>
    /\ ElemsFrame

\* a message that carries a status cell of its own
Add_elems_mutant(msg_type, fits) ==
    /\ st = "open"
    /\ elems.held > 0 /\ elems.pc = "idle"
    /\ Len(calls) < MaxMsgs
    /\ CanFit(batch.pages, fits)
    /\ elems' = SetElemsMsg_encode(elems).elems
    /\ batch' = Batch_add(batch, ElemsMsg, msg_type, fits)
    /\ calls' = Append(calls, [obj |-> ElemsMsg, msg_type |-> msg_type])
    /\ UNCHANGED <<st, ret>>
    /\ ElemsFrame

\* batch.add(&msg, msg_type) with a message the iterator yielded
Add_elems(msg_type, fits) ==
    /\ st = "open"
    /\ elems.held > 0 /\ elems.pc = "idle"
    /\ Len(calls) < MaxMsgs
    /\ CanFit(batch.pages, fits)
    /\ ret' = SetElemsMsg_encode(elems).status
    /\ elems' = SetElemsMsg_encode(elems).elems
    /\ batch' = Batch_add(batch, ElemsMsg, msg_type, fits)
    /\ calls' = Append(calls, [obj |-> ElemsMsg, msg_type |-> msg_type])
    /\ UNCHANGED st
    /\ ElemsFrame

\* a SetElemsMsg goes out of scope
Drop_msg ==
    /\ elems.held > 0 /\ elems.pc = "idle"
    /\ elems' = [elems EXCEPT !.held = @ - 1, !.last = "none"]
    /\ UNCHANGED <<st, batch, calls, ret>>
    /\ ElemsFrame

\* batch.add_iter(iter, msg_type): the iterator moves into the call
AddIter_call(msg_type) ==
    /\ st = "open"
    /\ elems.it = "live" /\ elems.pc = "idle" /\ elems.held = 0
    /\ elems' = [elems EXCEPT !.pc = "next", !.msg_type = msg_type,
                              !.last = "none"]
    /\ UNCHANGED <<st, batch, calls, ret>>
    /\ ElemsFrame

\* the head of the for loop: msg_iter.next(); on None the loop ends, the
\* iterator is dropped and add_iter returns ()
Loop_next ==
    /\ elems.pc = "next"
    /\ LET o == SetElemsIter_next(elems, ret)
       IN elems' = IF o = "Some"
                   THEN [elems EXCEPT !.last = o, !.held = 1, !.pc = "add"]
                   ELSE [elems EXCEPT !.last = o, !.pc = "returned",
                                      !.it = "dropped", !.returned = "()"]
    /\ UNCHANGED <<st, batch, calls, ret>>
    /\ ElemsFrame

\* a loop body whose message encodes through a cursor of its own
Loop_add_mutant(fits) ==
    /\ elems.pc = "add"
    /\ st = "open"
    /\ CanFit(batch.pages, fits)
    /\ ret' = SetElemsMsg_encode(elems).status
    /\ elems' = [SetElemsMsg_encode(elems).elems EXCEPT
                    !.held = 0, !.pc = "next", !.cur = elems.cur]
    /\ batch' = Batch_add(batch, ElemsMsg, elems.msg_type, fits)
    /\ calls' = Append(calls, [obj |-> ElemsMsg,
                               msg_type |-> elems.msg_type])
    /\ UNCHANGED st
    /\ ElemsFrame

\* the body of the for loop: self.add(&msg, msg_type), then msg is dropped
Loop_add(fits) ==
    /\ elems.pc = "add"
    /\ st = "open"
    /\ CanFit(batch.pages, fits)
    /\ ret' = SetElemsMsg_encode(elems).status
    /\ elems' = [SetElemsMsg_encode(elems).elems EXCEPT
                    !.held = 0, !.pc = "next"]
    /\ batch' = Batch_add(batch, ElemsMsg, elems.msg_type, fits)
    /\ calls' = Append(calls, [obj |-> ElemsMsg,
                               msg_type |-> elems.msg_type])
    /\ UNCHANGED st
    /\ ElemsFrame

\* the body of the for loop when the message needs a new page and
\* nftnl_batch_update cannot allocate it: Batch::next aborts the process
Loop_abort ==
    /\ elems.pc = "add"
    /\ st = "open"
    /\ CanFit(batch.pages, FALSE)
    /\ ret' = SetElemsMsg_encode(elems).status
    /\ elems' = [SetElemsMsg_encode(elems).elems EXCEPT !.pc = "aborted"]
    /\ st' = "aborted"
    /\ UNCHANGED <<batch, calls>>
    /\ ElemsFrame

\* the element models run on a kernel that acknowledges the end message
InitElems ==
    /\ Init
    /\ uname.release = <<"6", ".", "1", "0", ".", "0">>
    /\ ~debug_assertions

\* the owner of the iterator calls next and writes the messages as it
\* likes
NextElems ==
    \/ New
    \/ \E key \in Keys : Set_add(key)
    \/ Set_elems_iter
    \/ Iter_next
    \/ \E t \in MsgTypes, fits \in BOOLEAN : Add_elems(t, fits)
    \/ Drop_msg

SpecElems == InitElems /\ [][NextElems]_vars

\* the iterator is handed to add_iter
NextAddIter ==
    \/ New
    \/ \E key \in Keys : Set_add(key)
    \/ Set_elems_iter
    \/ \E t \in MsgTypes : AddIter_call(t)
    \/ Loop_next
    \/ \E fits \in BOOLEAN : Loop_add(fits)

SpecAddIter == InitElems /\ [][NextAddIter]_vars

\* a call of add_iter runs on until it returns
SpecAddIterFair ==
    /\ SpecAddIter
    /\ WF_vars(Loop_next)
    /\ WF_vars(\E fits \in BOOLEAN : Loop_add(fits))

\* add_iter where the allocation of a page can fail
NextAddIterAlloc ==
    \/ NextAddIter
    \/ Loop_abort

SpecAddIterAlloc == InitElems /\ [][NextAddIterAlloc]_vars

(***************************************************************************)
(* rule.rs: Rule.  The fields of rule:                                     *)
(*   state   "none" | "live" | "freed"                                     *)
(*   srcs    the arguments of the add_expr calls so far, in order          *)
(*   exprs   the expression list of the nftnl_rule                         *)
(*   framed  the expression nest of every message framed from the rule,    *)
(*           in the order of framing                                       *)
(***************************************************************************)
MaxExprs == 3

\* the expressions of the rule model: Meta expressions
RuleExprs == {"Iif", "L4Proto", "NfProto"}

\* a rule of a chain of an Inet table
RuleMsg == [kind |-> "Rule", table_family |-> "Inet", set_family |-> "Inet"]

\* an nftnl_rule_add_expr that puts the expression at the head of the list
nftnl_rule_add_expr_mutant(exprs, expr) == <<expr>> \o exprs

\* nftnl_rule_add_expr: the expression goes to the tail of the rule's list
nftnl_rule_add_expr(exprs, expr) == Append(exprs, expr)

\* nftnl_rule_nlmsg_build_payload: the expressions of the list, each in a
\* list element of the NFTA_RULE_EXPRESSIONS nest, in the order of the list
nftnl_rule_nlmsg_build_payload(exprs) ==
    [i \in 1..Len(exprs) |-> [NFTA_LIST_ELEM |-> exprs[i]]]

RuleFrame ==
    UNCHANGED <<envVars, kver, ack, req, iter, ret, chainVars, threadVars,
                fnVars, elems>>

\* Rule::new(&chain)
Rule_make ==
    /\ rule.state = "none"
    /\ rule' = [rule EXCEPT !.state = "live"]
    /\ UNCHANGED <<st, batch, calls>>
    /\ RuleFrame

\* rule.add_expr(&Meta::m)
Rule_add_expr(m) ==
    /\ rule.state = "live"
    /\ Len(rule.exprs) < MaxExprs
    /\ rule' = [rule EXCEPT
                   !.srcs = Append(@, m),
                   !.exprs = nftnl_rule_add_expr(@, Meta_to_expr(m).val)]
    /\ UNCHANGED <<st, batch, calls>>
    /\ RuleFrame

\* a Batch::add that takes the rule by value and frees it after framing
Add_rule_mutant(msg_type, fits) ==
    /\ st = "open"
    /\ rule.state = "live"
    /\ Len(calls) < MaxMsgs
    /\ CanFit(batch.pages, fits)
    /\ batch' = Batch_add(batch, RuleMsg, msg_type, fits)
    /\ calls' = Append(calls, [obj |-> RuleMsg, msg_type |-> msg_type])
    /\ rule' = [rule EXCEPT
                   !.framed = Append(@, nftnl_rule_nlmsg_build_payload(
                                            rule.exprs)),
                   !.state = "freed"]
    /\ UNCHANGED st
    /\ RuleFrame

\* batch.add(&rule, msg_type)
Add_rule(msg_type, fits) ==
    /\ st = "open"
    /\ rule.state = "live"
    /\ Len(calls) < MaxMsgs
    /\ CanFit(batch.pages, fits)
    /\ batch' = Batch_add(batch, RuleMsg, msg_type, fits)
    /\ calls' = Append(calls, [obj |-> RuleMsg, msg_type |-> msg_type])
    /\ rule' = [rule EXCEPT
                   !.framed = Append(@, nftnl_rule_nlmsg_build_payload(
                                            rule.exprs))]
    /\ UNCHANGED st
    /\ RuleFrame

\* the rule goes out of scope: nftnl_rule_free
Rule_drop ==
    /\ rule.state = "live"
    /\ rule' = [rule EXCEPT !.state = "freed"]
    /\ UNCHANGED <<st, batch, calls>>
    /\ RuleFrame

\* a rule is made, filled with expressions, framed and dropped
NextRule ==
    \/ New
    \/ Rule_make
    \/ \E m \in RuleExprs : Rule_add_expr(m)
    \/ \E t \in MsgTypes, fits \in BOOLEAN : Add_rule(t, fits)
    \/ Rule_drop

SpecRule == InitElems /\ [][NextRule]_vars

(***************************************************************************)
(* Properties of the batch engine                                          *)
(***************************************************************************)
BEGIN == "NFNL_MSG_BATCH_BEGIN"
END == "NFNL_MSG_BATCH_END"

HasBatch == st \in {"open", "finalized"}

\* the frames of fs whose sequence number is n
Carrying(fs, n) == {i \in 1..Len(fs) : fs[i].seq = n}

\* C1: a fresh batch with N added messages, once finalized, reports the
\* sequence numbers [1, N+3) when framing acknowledgements are honored and
\* [1, N+1) when they are not; each number of the range is carried by
\* exactly one frame, and no frame outside the range asks for an
\* acknowledgement.
C1_SequenceRange ==
    st = "finalized" =>
        LET N == Len(calls)
            r == sequence_numbers(batch)
            fs == Frames(batch)
        IN /\ r.start = 1
           /\ r.end = IF ack.val THEN N + 3 ELSE N + 1
           /\ \A n \in RangeSet(r) : Cardinality(Carrying(fs, n)) = 1
           /\ \A i \in 1..Len(fs) :
                  fs[i].seq \notin RangeSet(r) => NLM_F_ACK \notin fs[i].flags

\* three messages finalized on a platform that does not honor framing
\* acknowledgements
C1_Witness ==
    st = "finalized" /\ Len(calls) = 3 /\ ~ack.val
    /\ sequence_numbers(batch) = [start |-> 1, end |-> 4]

\* an add call has just happened
IsAdd == st = "open" /\ st' = "open" /\ calls' # calls

LastFrame(b) == Frames(b)[Len(Frames(b))]

\* the sequence numbers of the object frames of fs, in buffer order
RECURSIVE ObjectSeqs(_)
ObjectSeqs(fs) ==
    IF fs = <<>> THEN <<>>
    ELSE IF Head(fs).type \in {BEGIN, END} THEN ObjectSeqs(Tail(fs))
    ELSE <<Head(fs).seq>> \o ObjectSeqs(Tail(fs))

Consecutive(q) == \A i \in 1..(Len(q) - 1) : q[i + 1] = q[i] + 1

\* C2: every add writes its message with the current counter value as
\* sequence number and advances the counter by exactly one, whatever the
\* kind, the operation and the stored encoding status; object frames carry
\* consecutive increasing numbers and the range start stays 1.
C2_AddConsumesOneSeq ==
    /\ [](HasBatch => /\ batch.seqs.start = 1
                      /\ Consecutive(ObjectSeqs(Frames(batch))))
    /\ [][IsAdd =>
            /\ Frames(batch') = Append(Frames(batch), LastFrame(batch'))
            /\ LastFrame(batch').seq = batch.seqs.end
            /\ batch'.seqs.end = batch.seqs.end + 1
            /\ batch'.seqs.start = batch.seqs.start]_vars

\* three adds, one of them an element message whose encoding failed
C2_Witness ==
    /\ st = "open" /\ Len(calls) = 3 /\ ret = -1
    /\ calls[3].obj.kind = "SetElems" /\ calls[2].msg_type = "Del"

\* C3: where framing acknowledgements are honored the begin-frame and the
\* end-frame carry the current counter value, have the acknowledgement bit
\* raised on top of their base flags and advance the counter by one;
\* elsewhere both carry sequence number 0, have no acknowledgement bit and
\* leave the counter alone.
C3_FramingMessages ==
    [][(HasBatch' /\ st' # st) =>
          LET f == LastFrame(batch')
              before == IF st = "none" THEN FirstSeq ELSE batch.seqs.end
          IN /\ f.type = IF st = "none" THEN BEGIN ELSE END
             /\ IF ack'.val
                THEN /\ f.seq = before
                     /\ f.flags = {NLM_F_REQUEST, NLM_F_ACK}
                     /\ batch'.seqs.end = before + 1
                ELSE /\ f.seq = 0
                     /\ f.flags = {NLM_F_REQUEST}
                     /\ batch'.seqs.end = before]_vars

\* a finalized batch on a platform that honors framing acknowledgements
C3_Witness ==
    /\ st = "finalized" /\ ack.val /\ Len(calls) = 1
    /\ LastFrame(batch).seq = 3 /\ NLM_F_ACK \in Frames(batch)[1].flags

OfType(fs, t) == {i \in 1..Len(fs) : fs[i].type = t}

\* C4: the buffer of a batch always starts with its only begin-frame; an
\* open batch has no end-frame; a finalized batch has exactly one, as its
\* last frame, and is never written again.
C4_BeginAndEnd ==
    /\ [](HasBatch =>
            LET fs == Frames(batch)
            IN /\ OfType(fs, BEGIN) = {1}
               /\ st = "open" => OfType(fs, END) = {}
               /\ st = "finalized" => OfType(fs, END) = {Len(fs)})
    /\ [][st = "finalized" =>
            (st' = "none" \/ (st' = "finalized" /\ batch' = batch))]_vars

\* a finalized batch of two pages
C4_Witness ==
    st = "finalized" /\ Len(batch.pages) = 2 /\ Len(calls) = 2

\* the netlink message type NlMsg::write gives a call's message
TypeOfCall(c) == NlMsg_write(c.obj, 0, c.msg_type).type

IterDone == st = "finalized" /\ iter.pass > 0 /\ iter.iovecs = <<>>

\* C5: the slices yielded by the iterator, concatenated, are the
\* begin-frame, the messages of the add calls in call order with strictly
\* increasing sequence numbers, and the end-frame; a second iteration
\* yields the same slices.
C5_IterOrder ==
    IterDone =>
        LET fs == Flatten(iter.out)
        IN /\ Len(fs) = Len(calls) + 2
           /\ fs[1].type = BEGIN
           /\ fs[Len(fs)].type = END
           /\ \A i \in 1..Len(calls) :
                  /\ fs[i + 1].type = TypeOfCall(calls[i])
                  /\ fs[i + 1].family = calls[i].obj.table_family
                  /\ i > 1 => fs[i + 1].seq > fs[i].seq
           /\ iter.pass > 1 => iter.out = iter.prev

\* table, chain and rule added in that order, spread over two pages and
\* read twice
C5_Witness ==
    /\ IterDone /\ iter.pass = 2 /\ Len(iter.out) = 2
    /\ Len(calls) = 3
    /\ calls[1].obj.kind = "Table" /\ calls[2].obj.kind = "Chain"
    /\ calls[3].obj.kind = "Rule"
    /\ \A i \in 1..3 : calls[i].msg_type = "Add"

\* p + nft_nlmsg_maxsize() exceeds the u32 range
TooLarge(p) == u32_gt(p, LargestPageSize)

Value(u) == u.hi * Base + u.lo

Str(a, b, c, d, e) == <<a, b, c, d, e>>

\* C6: the capability is true exactly when the parsed kernel version is at
\* or above 6.10 in the lexicographic order of (major, minor); when the
\* version cannot be determined it is true in a production build, and a
\* debug build panics.
C6_AckCapability ==
    LET kv == kernel_version_init(uname)
    IN /\ kver.state = "done" => kver.val = kv
       /\ ack.state = "done" =>
            IF kv.some
            THEN ack.val = (\/ Value(kv.major) > 6
                            \/ Value(kv.major) = 6 /\ Value(kv.minor) >= 10)
            ELSE ack.val /\ ~debug_assertions
       /\ ack.state = "poisoned" =>
            ~kv.some /\ debug_assertions /\ st = "panicked"
       /\ (ack.state = "done" /\ uname.ok) =>
            /\ uname.release = Str("6", ".", "9", ".", "0") => ~ack.val
            /\ uname.release = Str("5", ".", "1", "5", ".") => ~ack.val
            /\ uname.release = Str("6", ".", "1", "0", ".") => ack.val
            /\ uname.release = Str("6", ".", "1", "1", ".") => ack.val
            /\ uname.release = Str("7", ".", "0", ".", "1") => ack.val

\* kernel 7.0: a higher major version with a minor version below 10
C6_Witness ==
    /\ ack.state = "done" /\ ack.val
    /\ uname.ok /\ uname.release = Str("7", ".", "0", ".", "1")
    /\ kver.val = Some(U32of(7), U32of(0))

HasAck(f) == NLM_F_ACK \in f.flags

\* C7: the initializer of the capability runs at most once whatever the
\* interleaving of the first reads; every read returns the value of the
\* cell, which never changes once set; the begin-frame and the end-frame of
\* every batch of the process are written under that one decision.
C7_ComputedOnce ==
    /\ [](/\ initRuns <= 1
          /\ \A t \in DOMAIN tseen :
                 /\ \A i \in 1..Len(tseen[t]) :
                        ack.state = "done" /\ tseen[t][i] = ack.val
                 /\ tpc[t] \in {"open", "finalized"} =>
                        HasAck(Frames(tbatch[t])[1]) = ack.val
                 /\ tpc[t] = "finalized" =>
                        HasAck(LastFrame(tbatch[t])) = ack.val)
    /\ [][ack.state = "done" => ack' = ack]_vars

\* both threads finalized a batch after racing for the first read
C7_Witness ==
    /\ DOMAIN tpc = Threads
    /\ \A t \in Threads : tpc[t] = "finalized" /\ Len(tseen[t]) = 2
    /\ initRuns = 1

(***************************************************************************)
(* Properties of the base-chain validator                                  *)
(***************************************************************************)
Complete(s) == s.chain_type # "None" /\ s.hook # "None" /\ s.priority.some

\* the legality table of base chains
Legal(chain_type, fam, hook) ==
    \/ chain_type = "Filter" /\ (fam = "Arp" => hook \in {"In", "Out"})
    \/ chain_type = "Nat" /\ fam \in {"Inet", "Ipv4", "Ipv6"}
       /\ hook \in {"PreRouting", "In", "Out", "PostRouting"}
    \/ chain_type = "Route" /\ fam \in {"Inet", "Ipv4", "Ipv6"}
       /\ hook = "Out"

C10_MissingFieldsFirst ==
    result # "none" =>
        /\ setter.chain_type = "None" => result = "MissingChainType"
        /\ (setter.chain_type # "None" /\ setter.hook = "None") =>
               result = "MissingHook"
        /\ (setter.chain_type # "None" /\ setter.hook # "None"
            /\ ~setter.priority.some) => result = "MissingPriority"
        /\ Complete(setter) =>
               result \in {"Ok", "InvalidCombination", "InvalidPriority"}

\* a route chain at the forward hook, legal on no family, without priority
C10_Witness ==
    /\ result = "MissingPriority"
    /\ setter.chain_type = "Route" /\ setter.hook = "Forward"
    /\ ~Legal(setter.chain_type, family, setter.hook)

(***************************************************************************)
(* Properties of the NAT priority limit                                    *)
(***************************************************************************)
\* the priority the setter asks for, as a number, where it has one
Resolved(s, fam) == Priority_value(s.priority, fam, s.hook)

AtOrBelowLimit(s, fam) ==
    Resolved(s, fam).some /\ Resolved(s, fam).v <= -200

\* C11 as stated: a Nat chain with a resolved priority at or below -200 gets
\* InvalidPriority whether or not its (type, family, hook) triple is legal.
C11_NatLimitBeforeLegality ==
    (result # "none" /\ Complete(setter) /\ setter.chain_type = "Nat"
     /\ AtOrBelowLimit(setter, family)) => result = "InvalidPriority"

\* C11 amended: a Nat chain with a resolved priority at or below -200 is
\* always rejected, with InvalidPriority on a legal triple and with
\* InvalidCombination on an illegal one; on a legal Nat triple try_set
\* returns Ok exactly when the priority resolves to more than -200; a Filter
\* or Route chain on a legal triple is accepted whenever its priority
\* resolves, whatever the number.
C11_NatPriorityLimit ==
    (result # "none" /\ Complete(setter)) =>
        LET legal == Legal(setter.chain_type, family, setter.hook)
            r == Resolved(setter, family)
        IN /\ (setter.chain_type = "Nat" /\ AtOrBelowLimit(setter, family)) =>
                  /\ result # "Ok"
                  /\ legal => result = "InvalidPriority"
                  /\ ~legal => result = "InvalidCombination"
           /\ (setter.chain_type = "Nat" /\ legal) =>
                  (result = "Ok" <=> (r.some /\ r.v > -200))
           /\ (setter.chain_type \in {"Filter", "Route"} /\ legal
               /\ r.some) => result = "Ok"

\* a Nat chain at PreRouting of an Ipv4 table asked for priority -200, the
\* limit itself, and was rejected
C11_Witness ==
    /\ result = "InvalidPriority" /\ family = "Ipv4"
    /\ setter.chain_type = "Nat" /\ setter.hook = "PreRouting"
    /\ setter.priority = Integer(-200)

(***************************************************************************)
(* Properties of a failed try_set                                          *)
(***************************************************************************)
Errors == {"MissingChainType", "MissingHook", "MissingPriority",
           "InvalidCombination", "InvalidPriority"}

\* C13: a try_set that returns an error leaves every attribute of the chain
\* as it was: a regular chain stays regular, and a chain set by an earlier
\* successful try_set keeps that type, hook, priority, device and policy.
C13_NoPartialEffects ==
    [][result' \in Errors => chain' = chain]_vars

\* the chain was made a Nat chain at PreRouting with a device and a policy,
\* and a later try_set of the setter moved to the Forward hook was refused
C13_Witness ==
    /\ result = "InvalidCombination"
    /\ setter.chain_type = "Nat" /\ setter.hook = "Forward"
    /\ chain.chain_type = "Nat" /\ chain.hook = "PreRouting"
    /\ chain.priority = SomeI32(0)
    /\ chain.device = "eth0" /\ chain.policy = "Drop"

(***************************************************************************)
(* Properties of Priority::value                                           *)
(***************************************************************************)
\* the named priorities of the inet, ip, ip6, arp and netdev families and
\* of the bridge family: <<name, families, hooks, value>>
NamedTable ==
    {<<"Raw", {"Inet", "Ipv4", "Ipv6"}, Hooks, -300>>,
     <<"Mangle", {"Inet", "Ipv4", "Ipv6"}, Hooks, -150>>,
     <<"DstNat", {"Inet", "Ipv4", "Ipv6"}, {"PreRouting"}, -100>>,
     <<"Filter", {"Inet", "Ipv4", "Ipv6", "Arp", "NetDev"}, Hooks, 0>>,
     <<"Security", {"Inet", "Ipv4", "Ipv6"}, Hooks, 50>>,
     <<"SrcNat", {"Inet", "Ipv4", "Ipv6"}, {"PostRouting"}, 100>>,
     <<"DstNat", {"Bridge"}, {"PreRouting"}, -300>>,
     <<"Filter", {"Bridge"}, Hooks, -200>>,
     <<"Out", {"Bridge"}, {"Out"}, 100>>,
     <<"SrcNat", {"Bridge"}, {"PostRouting"}, 300>>}

Rows(name, fam, hook) ==
    {row \in NamedTable : row[1] = name /\ fam \in row[2] /\ hook \in row[3]}

\* C12: Priority::value gives v for Integer(v) on every (family, hook); for
\* Name(n) it gives the constant of the table where (n, family, hook) has
\* one and None elsewhere: DstNat only at PreRouting, SrcNat only at
\* PostRouting, Out only at (Bridge, Out) where it is 100, and nothing on
\* Unspec or DecNet.
C12_PriorityValue ==
    (output.done /\ input.kind = "Priority") =>
        LET p == input.priority
            rows == Rows(p.name, input.family, input.hook)
        IN /\ p.kind = "Integer" => output.val = SomeI32(p.n)
           /\ p.kind = "Name" =>
                 /\ rows = {} => ~output.val.some
                 /\ \A row \in rows : output.val = SomeI32(row[4])
                 /\ (p.name = "DstNat" /\ output.val.some) =>
                        input.hook = "PreRouting"
                 /\ (p.name = "SrcNat" /\ output.val.some) =>
                        input.hook = "PostRouting"
                 /\ p.name = "Out" =>
                        (output.val.some
                            <=> (input.family = "Bridge"
                                 /\ input.hook = "Out"))
                 /\ (p.name = "Out" /\ output.val.some) => output.val.v = 100
                 /\ input.family \in {"Unspec", "DecNet"} =>
                        ~output.val.some
                 /\ (p.name = "DstNat" /\ input.family = "Inet") =>
                        (output.val.some <=> input.hook = "PreRouting")

\* Name(Out) was resolved at the Out hook of an Inet table and failed
C12_Witness ==
    /\ output.done /\ input.kind = "Priority"
    /\ input.priority = Name("Out")
    /\ input.family = "Inet" /\ input.hook = "Out"
    /\ ~output.val.some

(***************************************************************************)
(* Properties of the framed object messages                                *)
(***************************************************************************)
Written == output.done /\ input.kind = "NlMsg"

\* C14: a message framed with Add carries the create flag and the
\* acknowledgement flag, whatever the kind of the object, and for a rule
\* also the append and the exclusivity flag.
C14_AddFlags ==
    (Written /\ input.msg_type = "Add") =>
        /\ {NLM_F_CREATE, NLM_F_ACK} \subseteq output.val.flags
        /\ input.obj.kind = "Rule" =>
               {NLM_F_APPEND, NLM_F_EXCL} \subseteq output.val.flags

\* C15: a message framed with Del carries the acknowledgement flag and none
\* of the create, append and exclusivity flags, whatever the kind of the
\* object.
C15_DelFlags ==
    (Written /\ input.msg_type = "Del") =>
        /\ NLM_F_ACK \in output.val.flags
        /\ output.val.flags
               \cap {NLM_F_CREATE, NLM_F_APPEND, NLM_F_EXCL} = {}

\* C16: the header of a framed Table, Chain or Rule carries the family of
\* the table (its own, or the one owning the chain or the rule), which is
\* also the family attribute the constructor stored in the payload, and the
\* sequence number the caller supplied.
C16_HeaderFamilyAndSeq ==
    (Written /\ input.obj.kind \in {"Table", "Chain", "Rule"}) =>
        /\ output.val.family = input.obj.table_family
        /\ output.val.family = input.obj.attr_family
        /\ output.val.seq = input.seq

\* a rule of a chain of an Inet table was framed with sequence number 2
C16_Witness ==
    /\ Written
    /\ input.obj = Rule_new(Chain_new(Table_new("Inet")))
    /\ input.seq = 2
    /\ output.val.family = "Inet"

(***************************************************************************)
(* Properties of the compiled expressions                                  *)
(***************************************************************************)
Compiled(kind) == output.done /\ input.kind = kind

Attr(name) == output.val.attrs[name]

IsByte(b) == b \in 0..255

\* C17: the operand of a compare serializes to 1 byte for a u8, 2 for a
\* u16, 4 for a u32 and 16 for an IPv6 address; reading the bytes back gives
\* the operand again; and a u16 or u32 has its least significant byte first.
C17_OperandRoundTrip ==
    Compiled("Cmp") =>
        LET d == Attr("NFTNL_EXPR_CMP_DATA")
            v == input.data
        IN /\ \A i \in 1..Len(d) : IsByte(d[i])
           /\ v.ty = "u8" => Len(d) = 1 /\ d[1] = v.u8
           /\ v.ty = "u16" =>
                 /\ Len(d) = 2
                 /\ d[1] + 256 * d[2] = v.u16
                 /\ d[1] = v.u16 % 256
           /\ v.ty = "u32" =>
                 /\ Len(d) = 4
                 /\ d[1] + 256 * d[2] = v.u32.lo
                 /\ d[3] + 256 * d[4] = v.u32.hi
                 /\ d[1] = v.u32.lo % 256
           /\ v.ty = "Ipv6Addr" =>
                 /\ Len(d) = 16
                 /\ \A k \in 1..8 :
                        256 * d[2 * k - 1] + d[2 * k] = v.segments[k]

\* the u16 0x1234 was serialized to the bytes 0x34, 0x12
C17_Witness ==
    /\ Compiled("Cmp")
    /\ input.data = OfU16(4660)
    /\ Attr("NFTNL_EXPR_CMP_DATA") = <<52, 18>>

\* the (base, offset, length) triple of an encoded payload expression
Triple(expr) ==
    <<expr.attrs["NFTNL_EXPR_PAYLOAD_BASE"],
      expr.attrs["NFTNL_EXPR_PAYLOAD_OFFSET"],
      expr.attrs["NFTNL_EXPR_PAYLOAD_LEN"]>>

TripleOf(p) == Triple(Payload_to_expr(p).val)

\* no other Meta key, Conntrack key or Fib result kind has the code of the
\* one that was encoded
OtherKeysDiffer ==
    /\ Compiled("Meta") =>
          \A m \in Metas \ {input.meta} :
              Meta_to_raw_key(m) # Attr("NFTNL_EXPR_META_KEY")
    /\ Compiled("Conntrack") =>
          \A ct \in Conntracks :
              ct.key # input.ct.key =>
                  Conntrack_raw_key(ct) # Attr("NFTNL_EXPR_CT_KEY")
    /\ Compiled("FibResult") =>
          \A r \in FibResults \ {input.result} :
              FibResult_raw_result_type(r) # output.val

\* C18 as stated: in each of the four key spaces (Meta keys, Conntrack keys,
\* Payload header fields as (base, offset, length) triples, Fib result
\* kinds) no two distinct symbols have the same code.
C18_CodesInjective ==
    /\ OtherKeysDiffer
    /\ Compiled("Payload") =>
          \A p \in Payloads \ {input.payload} :
              TripleOf(p) # Triple(output.val)

\* C18 amended: no two distinct Meta keys, Conntrack keys or Fib result
\* kinds have the same code; no two distinct header fields of the same
\* protocol header, and no two distinct fields of the link-layer and network
\* headers, have the same (base, offset, length) triple.  Fields of
\* different transport protocols can share one.
C18_CodesInjectiveWithinHeader ==
    /\ OtherKeysDiffer
    /\ Compiled("Payload") =>
          \A p \in Payloads \ {input.payload} :
              (p.header = input.payload.header
               \/ {p.layer, input.payload.layer} \subseteq
                      {"LinkLayer", "Network"})
                  => TripleOf(p) # Triple(output.val)

\* the source port of TCP was encoded as (transport header, 0, 2), which is
\* also the triple of the source port of UDP
C18_Witness ==
    /\ Compiled("Payload")
    /\ input.payload =
           [layer |-> "Transport", header |-> "Tcp", field |-> "Sport"]
    /\ Triple(output.val) = <<2, 0, 2>>
    /\ TripleOf([layer |-> "Transport", header |-> "Udp",
                 field |-> "Sport"]) = <<2, 0, 2>>

(***************************************************************************)
(* Properties of Bitwise and Conntrack                                     *)
(***************************************************************************)
\* the number of bytes of an operand
Width(d) ==
    CASE d.ty = "u8" -> 1
      [] d.ty = "u16" -> 2
      [] d.ty = "u32" -> 4
      [] d.ty = "Ipv6Addr" -> 16
      [] d.ty = "empty" -> 0

\* C19: compiling a Bitwise whose mask and xor differ in byte length panics;
\* with equal lengths it returns an expression whose source and destination
\* register are register 1, whose length attribute is the shared length,
\* and whose mask and xor buffers have that length.
C19_BitwiseLengths ==
    Compiled("Bitwise") =>
        IF Width(input.mask) # Width(input.xor)
        THEN output.panic
        ELSE /\ ~output.panic
             /\ Attr("NFTNL_EXPR_BITWISE_SREG") = 1
             /\ Attr("NFTNL_EXPR_BITWISE_DREG") = 1
             /\ Attr("NFTNL_EXPR_BITWISE_LEN") = Width(input.mask)
             /\ Len(Attr("NFTNL_EXPR_BITWISE_MASK")) = Width(input.mask)
             /\ Len(Attr("NFTNL_EXPR_BITWISE_XOR")) = Width(input.mask)

\* a u32 mask with a u16 xor: the compilation panicked
C19_Witness ==
    /\ Compiled("Bitwise")
    /\ input.mask = OfU32(U32Max) /\ input.xor = OfU16(4660)
    /\ output.panic

IsWrite(ct) == ct.key \in {"Mark", "Zone"} /\ ct.set

\* C20: an encoded Conntrack expression has exactly one of the source
\* register and the destination register, holding register 1: the source
\* register for a write (Mark or Zone with set), the destination register
\* for a read (State, Status, Mark or Zone without set).  State and Status
\* are never writes.
C20_ConntrackRegister ==
    Compiled("Conntrack") =>
        LET regs == DOMAIN output.val.attrs
                    \cap {"NFTNL_EXPR_CT_SREG", "NFTNL_EXPR_CT_DREG"}
        IN /\ ~output.panic
           /\ regs = IF IsWrite(input.ct) THEN {"NFTNL_EXPR_CT_SREG"}
                     ELSE {"NFTNL_EXPR_CT_DREG"}
           /\ \A r \in regs : output.val.attrs[r] = 1
           /\ input.ct.key \in {"State", "Status"} =>
                  regs = {"NFTNL_EXPR_CT_DREG"}

\* the expression that sets the conntrack mark was encoded
C20_Witness ==
    /\ Compiled("Conntrack")
    /\ input.ct = [key |-> "Mark", set |-> TRUE]
    /\ "NFTNL_EXPR_CT_SREG" \in DOMAIN output.val.attrs

(***************************************************************************)
(* Properties of named priorities with an offset                           *)
(***************************************************************************)
\* c + k lies in the i32 range
InI32(c, k) == IF c >= 0 THEN k <= I32Max - c ELSE k >= I32Min - c

\* the number Priority::value is to give for pr on (fam, hook), as a set:
\* empty where it is to fail
Expected(pr, fam, hook) ==
    CASE pr.kind = "Integer" -> {pr.n}
      [] pr.kind = "Name" -> {row[4] : row \in Rows(pr.name, fam, hook)}
      [] pr.kind = "NamedOffset" ->
             {row[4] + pr.n : row \in {r \in Rows(pr.name, fam, hook) :
                                          InI32(r[4], pr.n)}}

\* C26: Priority::value of NamedOffset(n, k) is the named constant of
\* (n, family, hook) plus k; it is None when the name has no constant for
\* (family, hook) or when the sum is outside the i32 range, and never a
\* wrapped number.  try_set answers InvalidPriority for every priority that
\* does not resolve on a legal (type, family, hook) triple, and
\* InvalidCombination on an illegal triple whether or not the priority
\* resolves.
C26_NamedOffset ==
    /\ (output.done /\ input.kind = "Priority"
        /\ input.priority.kind = "NamedOffset") =>
           LET e == Expected(input.priority, input.family, input.hook)
           IN /\ e = {} <=> ~output.val.some
              /\ \A v \in e : output.val = SomeI32(v)
    /\ (output.done /\ input.kind = "TrySet") =>
           LET s == input.setter
               e == Expected(s.priority, input.table, s.hook)
               legal == Legal(s.chain_type, input.table, s.hook)
           IN /\ ~legal => output.val.result = "InvalidCombination"
              /\ (legal /\ e = {}) => output.val.result = "InvalidPriority"
              /\ (legal /\ e # {} /\ output.val.result = "Ok") =>
                     \A v \in e : output.val.chain.priority = SomeI32(v)
              /\ output.val.result = "InvalidPriority" => legal

\* Security + i32::MAX at the In hook of an Ipv4 table left the i32 range
\* and gave None
C26_Witness ==
    /\ output.done /\ input.kind = "Priority"
    /\ input.priority = NamedOffset("Security", I32Max)
    /\ input.family = "Ipv4" /\ input.hook = "In"
    /\ ~output.val.some

(***************************************************************************)
(* Properties of the messages of a set                                     *)
(***************************************************************************)
\* the other message of the same set: the add-elements message of a set,
\* the create-set message of an add-elements message
Sibling(obj) ==
    [obj EXCEPT !.kind = IF obj.kind = "Set" THEN "SetElems" ELSE "Set"]

\* C29: the header of the create-set message of a set and the header of an
\* add-elements message of that set carry the same family, which is the
\* family attribute stored in the set, whatever the family of the set and
\* the family of its table.
C29_SetFamilies ==
    (Written /\ input.obj.kind \in {"Set", "SetElems"}) =>
        /\ output.val.family = input.obj.attr_family
        /\ output.val.family
               = NlMsg_write(Sibling(input.obj), input.seq,
                             input.msg_type).family

(***************************************************************************)
(* Properties of a successful try_set                                      *)
(***************************************************************************)
\* C30: a try_set that returns Ok stores the setter's type and hook and the
\* resolved priority in the chain, stores the setter's device and policy
\* where the setter has one, and leaves the chain's earlier device and
\* policy where the setter has none; no try_set, successful or not, changes
\* the chain's name, its table or its family.
C30_SuccessfulTrySet ==
    [][/\ result' = "Ok" =>
              /\ chain'.chain_type = setter.chain_type
              /\ chain'.hook = setter.hook
              /\ chain'.priority = Resolved(setter, family)
              /\ chain'.device = IF setter.device # "None"
                                 THEN setter.device ELSE chain.device
              /\ chain'.policy = IF setter.policy # "None"
                                 THEN setter.policy ELSE chain.policy
       /\ result' # "none" =>
              /\ chain'.name = chain.name
              /\ chain'.table = chain.table
              /\ family' = family]_vars

\* a setter without device and policy was applied with success to a chain
\* that an earlier try_set had given the device eth0 and the policy Drop at
\* another hook: the chain moved to the new hook and kept both
C30_Witness ==
    /\ result = "Ok"
    /\ setter.device = "None" /\ setter.policy = "None"
    /\ setter.hook = "Forward" /\ chain.hook = "Forward"
    /\ chain.device = "eth0" /\ chain.policy = "Drop"
    /\ chain.name = "chain" /\ chain.table = "table"

(***************************************************************************)
(* Properties of the element messages of a set                             *)
(***************************************************************************)
\* the element messages among the messages of the batch
ElemFrames ==
    SelectSeq(Frames(batch),
              LAMBDA f : f.type \in {"NFT_MSG_NEWSETELEM",
                                     "NFT_MSG_DELSETELEM"})

\* the pages n elements take
PagesOf(n) == (n + ElemsPerPage - 1) \div ElemsPerPage

\* the elements left for the i-th message of a set of n elements
LeftFor(i, n) == n - (i - 1) * ElemsPerPage

InAddIter == elems.pc \in {"next", "add", "returned"}

\* C21: while add_iter writes every message before it asks for the next
\* one, the elements written so far are the first elements of the set, in
\* the order of insertion, each once, and every message holds a full page
\* or, if fewer are left, all that are left; when add_iter has returned,
\* all n elements have been written, in as many messages as n elements
\* take pages: none for an empty set.
C21_OneMessagePerPage ==
    InAddIter =>
        LET n == Len(elems.keys)
            written == Flatten(elems.payloads)
        IN /\ Len(written) <= n
           /\ written = SubSeq(elems.keys, 1, Len(written))
           /\ Len(ElemFrames) = Len(elems.payloads)
           /\ \A i \in 1..Len(elems.payloads) :
                 /\ LeftFor(i, n) >= ElemsPerPage =>
                        Len(elems.payloads[i]) = ElemsPerPage
                 /\ LeftFor(i, n) < ElemsPerPage =>
                        Len(elems.payloads[i]) = LeftFor(i, n)
           /\ elems.pc = "returned" =>
                 /\ written = elems.keys
                 /\ Len(ElemFrames) = PagesOf(n)
                 /\ elems.msg_type = "Add" =>
                        \A i \in 1..Len(ElemFrames) :
                            ElemFrames[i].type = "NFT_MSG_NEWSETELEM"

\* add_iter returned after it wrote a set of three elements in two
\* messages
C21_Witness ==
    /\ elems.pc = "returned" /\ elems.msg_type = "Add"
    /\ elems.keys = <<"a", "b", "a">>
    /\ elems.payloads = << <<"a", "b">>, <<"a">> >>
    /\ Len(ElemFrames) = 2

\* C24: add_iter adds the messages in the order the iterator yields them,
\* and when a message fails to be added, add_iter returns the error of
\* that failure to its caller, the messages before it still in the batch.
C24_ErrorReturned ==
    /\ InAddIter =>
           /\ Len(ElemFrames) = Len(elems.payloads)
           /\ \A i \in 1..Len(ElemFrames) :
                  i > 1 => ElemFrames[i].seq = ElemFrames[i - 1].seq + 1
    /\ elems.pc = "aborted" =>
           /\ elems.returned = "Err"
           /\ Len(ElemFrames) = Len(elems.payloads) - 1

\* a step that writes an element message
WriteStep == Len(elems'.payloads) = Len(elems.payloads) + 1

NextStep == elems'.last # "none" /\ elems' # elems

\* elements are left behind the cursor
ElementsLeft(e) == e.cur >= 1 /\ e.cur <= Len(e.keys)

C28_NextHasNoEffect ==
    /\ [][NextStep =>
              /\ elems'.cur = elems.cur
              /\ ret' = ret
              /\ elems'.payloads = elems.payloads
              /\ batch' = batch]_vars
    /\ [][(elems.it = "live" /\ (elems'.cur # elems.cur \/ ret' # ret)) =>
              WriteStep]_vars
    /\ [][(NextStep /\ elems.keys # <<>> /\ elems.payloads = <<>>) =>
              (elems'.last = "Some" /\ elems'.held = elems.held + 1)]_vars
    /\ [](elems.it = "live" /\ elems.keys # <<>> =>
              Flatten(elems.payloads)
                  = SubSeq(elems.keys, 1, elems.cur - 1))

\* two messages were yielded one after the other, nothing having been
\* written, and the cursor is still at the first element
C28_Witness ==
    /\ elems.held = 2 /\ elems.last = "Some"
    /\ elems.payloads = <<>>
    /\ elems.cur = 1 /\ ret = 1
    /\ Len(elems.keys) = 3

(***************************************************************************)
(* Properties of the expressions of a rule                                 *)
(***************************************************************************)
\* a step that is a call of add_expr
AddExprStep == Len(rule'.srcs) = Len(rule.srcs) + 1

\* a step that frames the rule
FrameStep == Len(rule'.framed) = Len(rule.framed) + 1

\* the Meta expression of key m, as the rule holds it
IsMetaOf(expr, m) ==
    /\ expr.name = "meta"
    /\ expr.attrs["NFTNL_EXPR_META_KEY"] = Meta_to_raw_key(m)

\* C22: after add_expr has been called with e1, ..., en, the expression
\* list of the rule is the expressions of e1, ..., en in that order: a call
\* adds one expression at the tail and leaves the earlier ones in their
\* places; a message framed from the rule carries the expressions the rule
\* holds at that time, in the same order.
C22_ExpressionOrder ==
    /\ [](/\ Len(rule.exprs) = Len(rule.srcs)
          /\ \A i \in 1..Len(rule.srcs) :
                 IsMetaOf(rule.exprs[i], rule.srcs[i]))
    /\ [][AddExprStep =>
              /\ Len(rule'.exprs) = Len(rule.exprs) + 1
              /\ \A i \in 1..Len(rule.exprs) :
                     rule'.exprs[i] = rule.exprs[i]]_vars
    /\ [][FrameStep =>
              LET payload == rule'.framed[Len(rule'.framed)]
              IN /\ Len(payload) = Len(rule.srcs)
                 /\ \A i \in 1..Len(payload) :
                        IsMetaOf(payload[i].NFTA_LIST_ELEM, rule.srcs[i])
                 /\ rule'.exprs = rule.exprs]_vars

\* add_expr was called with NfProto, L4Proto and Iif, and the rule was
\* framed with the three expressions in that order
C22_Witness ==
    /\ rule.srcs = <<"NfProto", "L4Proto", "Iif">>
    /\ Len(rule.framed) = 1
    /\ Len(rule.framed[1]) = 3
    /\ IsMetaOf(rule.framed[1][3].NFTA_LIST_ELEM, "Iif")

\* C23 as stated: once Batch::add has framed the rule, the rule is freed,
\* it is not framed a second time and no expression is appended to it.
C23_ConsumedOnce ==
    /\ [][Len(rule.framed) >= 1 =>
              (rule'.framed = rule.framed /\ rule'.exprs = rule.exprs)]_vars
    /\ [](Len(rule.framed) >= 1 => rule.state = "freed")

\* C23 amended: Batch::add borrows the rule: a framing leaves the rule
\* live and its expressions as they are, so that the rule can be framed
\* again and extended; the rule is freed by its drop alone, and a freed
\* rule is neither framed nor extended nor made live again.
C23_BorrowedNotConsumed ==
    /\ [][FrameStep =>
              /\ rule.state = "live" /\ rule'.state = "live"
              /\ rule'.exprs = rule.exprs
              /\ rule'.srcs = rule.srcs]_vars
    /\ [][rule.state = "freed" => rule' = rule]_vars
    /\ [][(rule.state = "live" /\ rule'.state = "freed") =>
              (rule'.framed = rule.framed /\ rule'.exprs = rule.exprs
               /\ batch' = batch)]_vars

\* the rule was framed with one expression, extended, framed again with
\* both, and is still live
C23_Witness ==
    /\ rule.state = "live"
    /\ Len(rule.framed) = 2
    /\ Len(rule.framed[1]) = 1 /\ Len(rule.framed[2]) = 2

====
